---- MODULE Spec2Model ----
(***************************************************************************)
(* Model of the `find` command (src/unnamed/part_001): argument parsing,   *)
(* expression evaluation, depth-bounded traversal over the host file       *)
(* system, and the post-traversal action phase.                            *)
(*                                                                         *)
(* Strings are sequences of one-character strings, so that startsWith,     *)
(* slice, split, length and concatenation are computed as the code does.   *)
(***************************************************************************)
EXTENDS Integers, Sequences, FiniteSets, TLC

(***************************************************************************)
(* Bounds of the model.                                                    *)
(***************************************************************************)
\* longest item sequence (predicates and operators) given to the parser
MaxItems == 5
\* how many stat calls of one invocation the host may fail
MaxStatFail == 1
\* how many removals of one invocation the host may fail for reasons of its own
MaxRmFail == 1
\* largest exit code an external command returns
MaxExit == 1
\* how many external commands of one invocation may return a non-zero code
MaxExecFail == 1
MaxSizeValue == 3
MaxNotItems == 4

(***************************************************************************)
(* String helpers (JavaScript string methods on character sequences).      *)
(***************************************************************************)
StartsWith(s, p) == Len(s) >= Len(p) /\ SubSeq(s, 1, Len(p)) = p

\* s.slice(k) for k >= 0
Slice(s, k) == IF k >= Len(s) THEN <<>> ELSE SubSeq(s, k + 1, Len(s))

\* index of the last "/" of s, 0 when there is none
RECURSIVE LastSlash(_, _)
LastSlash(s, k) ==
    IF k = 0 THEN 0
    ELSE IF s[k] = "/" THEN k ELSE LastSlash(s, k - 1)

\* s.split("/").pop()
LastComponent(s) == Slice(s, LastSlash(s, Len(s)))

\* parts.join(sep)
RECURSIVE Join(_, _)
Join(parts, sep) ==
    IF Len(parts) = 0 THEN <<>>
    ELSE IF Len(parts) = 1 THEN parts[1]
    ELSE parts[1] \o sep \o Join(Tail(parts), sep)

\* number of "\n" characters of a text
RECURSIVE NumLines(_)
NumLines(s) ==
    IF Len(s) = 0 THEN 0
    ELSE (IF Head(s) = "\n" THEN 1 ELSE 0) + NumLines(Tail(s))

(***************************************************************************)
(* Argument words.                                                         *)
(***************************************************************************)
W_name     == <<"-", "n", "a", "m", "e">>
W_iname    == <<"-", "i", "n", "a", "m", "e">>
W_path     == <<"-", "p", "a", "t", "h">>
W_ipath    == <<"-", "i", "p", "a", "t", "h">>
W_type     == <<"-", "t", "y", "p", "e">>
W_empty    == <<"-", "e", "m", "p", "t", "y">>
W_mtime    == <<"-", "m", "t", "i", "m", "e">>
W_newer    == <<"-", "n", "e", "w", "e", "r">>
W_size     == <<"-", "s", "i", "z", "e">>
W_not      == <<"-", "n", "o", "t">>
W_bang     == <<"!">>
W_o        == <<"-", "o">>
W_or       == <<"-", "o", "r">>
W_a        == <<"-", "a">>
W_and      == <<"-", "a", "n", "d">>
W_maxdepth == <<"-", "m", "a", "x", "d", "e", "p", "t", "h">>
W_mindepth == <<"-", "m", "i", "n", "d", "e", "p", "t", "h">>
W_exec     == <<"-", "e", "x", "e", "c">>
W_print    == <<"-", "p", "r", "i", "n", "t">>
W_print0   == <<"-", "p", "r", "i", "n", "t", "0">>
W_delete   == <<"-", "d", "e", "l", "e", "t", "e">>
W_semi     == <<";">>
W_plus     == <<"+">>
W_braces   == <<"{", "}">>
W_dot      == <<".">>
W_f        == <<"f">>
W_d        == <<"d">>

PREDICATES_WITH_ARGS ==
    {W_name, W_iname, W_path, W_ipath, W_type, W_maxdepth, W_mindepth,
     W_mtime, W_newer, W_size}

(***************************************************************************)
(* parseInt(s, 10): optional sign, then the longest prefix of digits; NaN  *)
(* when there is no digit.  A number is [nan, v].                          *)
(***************************************************************************)
Digits == {"0", "1", "2", "3", "4", "5", "6", "7", "8", "9"}

DigitVal(c) ==
    CASE c = "0" -> 0 [] c = "1" -> 1 [] c = "2" -> 2 [] c = "3" -> 3
      [] c = "4" -> 4 [] c = "5" -> 5 [] c = "6" -> 6 [] c = "7" -> 7
      [] c = "8" -> 8 [] c = "9" -> 9

NaN == [nan |-> TRUE, v |-> 0]
Num(n) == [nan |-> FALSE, v |-> n]

RECURSIVE DigitPrefix(_, _, _)
DigitPrefix(s, k, acc) ==
    IF k <= Len(s) /\ s[k] \in Digits
    THEN DigitPrefix(s, k + 1, acc * 10 + DigitVal(s[k]))
    ELSE acc

ParseInt(s) ==
    LET signed == Len(s) > 0 /\ s[1] \in {"+", "-"}
        body == IF signed THEN Tail(s) ELSE s
    IN  IF Len(body) = 0 \/ body[1] \notin Digits THEN NaN
        ELSE IF signed /\ s[1] = "-" THEN Num(0 - DigitPrefix(body, 1, 0))
        ELSE Num(DigitPrefix(body, 1, 0))

(***************************************************************************)
(* matchGlob: the pattern is translated, left to right, into an anchored   *)
(* regular expression, which is then tested against the name.  The regular *)
(* expression is a sequence of items: star (any sequence), dot (any one    *)
(* character), class ([...]) and lit (one literal character, escaped when  *)
(* it is a metacharacter).                                                  *)
(* A class body is a set of literal characters, negated by a leading "^";  *)
(* ranges and backslashes inside a class are outside the modelled input.   *)
(***************************************************************************)
UpperChars == <<"A", "B", "C", "D", "G", "L", "O", "T", "X">>
LowerChars == <<"a", "b", "c", "d", "g", "l", "o", "t", "x">>

\* case folding of the regular expression's "i" flag
ToLower(c) ==
    IF \E k \in 1..Len(UpperChars) : UpperChars[k] = c
    THEN LowerChars[CHOOSE k \in 1..Len(UpperChars) : UpperChars[k] = c]
    ELSE c

\* while (j < pattern.length && pattern[j] !== "]") j++   (1-based positions)
RECURSIVE ClassEnd(_, _)
ClassEnd(pattern, j) ==
    IF j <= Len(pattern) /\ pattern[j] # "]" THEN ClassEnd(pattern, j + 1) ELSE j

RECURSIVE GlobToRegex(_, _)
GlobToRegex(pattern, i) ==
    IF i > Len(pattern) THEN <<>>
    ELSE LET c == pattern[i] IN
         IF c = "*" THEN <<[k |-> "star", c |-> "", body |-> <<>>]>> \o GlobToRegex(pattern, i + 1)
         ELSE IF c = "?" THEN <<[k |-> "dot", c |-> "", body |-> <<>>]>> \o GlobToRegex(pattern, i + 1)
         ELSE IF c = "["
              THEN LET j == ClassEnd(pattern, i + 1)
                   IN  IF j > Len(pattern)
                       THEN <<[k |-> "badclass", c |-> "", body |-> SubSeq(pattern, i + 1, Len(pattern))]>>
                       ELSE <<[k |-> "class", c |-> "", body |-> SubSeq(pattern, i + 1, j - 1)]>>
                            \o GlobToRegex(pattern, j + 1)
         ELSE <<[k |-> "lit", c |-> c, body |-> <<>>]>> \o GlobToRegex(pattern, i + 1)

\* new RegExp(regex) raises a SyntaxError on an unterminated character class
RegexInvalid(re) == \E k \in 1..Len(re) : re[k].k = "badclass"

ClassMatches(body, ch, ignoreCase) ==
    LET negated == Len(body) > 0 /\ body[1] = "^"
        members == IF negated THEN Tail(body) ELSE body
        hit == \E k \in 1..Len(members) :
                   IF ignoreCase THEN ToLower(members[k]) = ToLower(ch)
                   ELSE members[k] = ch
    IN  IF negated THEN ~hit ELSE hit

ItemMatches(item, ch, ignoreCase) ==
    CASE item.k = "dot" -> TRUE
      [] item.k = "class" -> ClassMatches(item.body, ch, ignoreCase)
      [] item.k = "lit" -> IF ignoreCase THEN ToLower(item.c) = ToLower(ch) ELSE item.c = ch
      [] OTHER -> FALSE

\* does re[k..] match exactly s[n..]
RECURSIVE RegexTest(_, _, _, _, _)
RegexTest(re, k, s, n, ignoreCase) ==
    IF k > Len(re) THEN n > Len(s)
    ELSE IF re[k].k = "star"
         THEN \E m \in n..(Len(s) + 1) : RegexTest(re, k + 1, s, m, ignoreCase)
         ELSE /\ n <= Len(s)
              /\ ItemMatches(re[k], s[n], ignoreCase)
              /\ RegexTest(re, k + 1, s, n + 1, ignoreCase)

matchGlobThrows(pattern) == RegexInvalid(GlobToRegex(pattern, 1))

matchGlob(name, pattern, ignoreCase) ==
    RegexTest(GlobToRegex(pattern, 1), 1, name, 1, ignoreCase)

(***************************************************************************)
(* Expressions (type Expression) and their evaluation.                     *)
(***************************************************************************)
NullExpr == [type |-> "null"]
NameExpr(p, ic) == [type |-> "name", pattern |-> p, ignoreCase |-> ic]
PathExpr(p, ic) == [type |-> "path", pattern |-> p, ignoreCase |-> ic]
TypeExpr(t) == [type |-> "type", fileType |-> t]
EmptyExpr == [type |-> "empty"]
MtimeExpr(d, cmp) == [type |-> "mtime", days |-> d, comparison |-> cmp]
NewerExpr(r) == [type |-> "newer", refPath |-> r]
SizeExpr(v, u, cmp) == [type |-> "size", value |-> v, unit |-> u, comparison |-> cmp]
NotExpr(e) == [type |-> "not", expr |-> e]
AndExpr(l, r) == [type |-> "and", left |-> l, right |-> r]
OrExpr(l, r) == [type |-> "or", left |-> l, right |-> r]

\* milliseconds of a day: 1000 * 60 * 60 * 24
DayMs == 86400000

\* targetBytes of a size predicate
TargetBytes(value, unit) ==
    CASE unit = "c" -> value
      [] unit = "k" -> value * 1024
      [] unit = "M" -> value * 1024 * 1024
      [] unit = "G" -> value * 1024 * 1024 * 1024
      [] unit = "b" -> value * 512
      [] OTHER -> value

\* as CeilBlocks, but rounding down
CeilBlocksFloor(size) == size \div 512

\* Math.ceil(size / 512) for size >= 0
CeilBlocks(size) == (size + 511) \div 512

\* a context is [name, relativePath, isFile, isDirectory, isEmpty, mtime,
\* size, newerRefTimes, now]; now is the clock read by the mtime predicate
RECURSIVE evaluateExpression(_, _)
evaluateExpression(expr, ctx) ==
    CASE expr.type = "name" -> matchGlob(ctx.name, expr.pattern, expr.ignoreCase)
      [] expr.type = "path" -> matchGlob(ctx.relativePath, expr.pattern, expr.ignoreCase)
      [] expr.type = "type" ->
            IF expr.fileType = "f" THEN ctx.isFile
            ELSE IF expr.fileType = "d" THEN ctx.isDirectory
            ELSE FALSE
      [] expr.type = "empty" -> ctx.isEmpty
      [] expr.type = "mtime" ->
            LET age == ctx.now - ctx.mtime IN
            IF expr.comparison = "more" THEN age > expr.days * DayMs
            ELSE IF expr.comparison = "less" THEN age < expr.days * DayMs
            ELSE age \div DayMs = expr.days
      [] expr.type = "newer" ->
            IF expr.refPath \notin DOMAIN ctx.newerRefTimes THEN FALSE
            ELSE ctx.mtime > ctx.newerRefTimes[expr.refPath]
      [] expr.type = "size" ->
            LET targetBytes == TargetBytes(expr.value, expr.unit) IN
            IF expr.comparison = "more" THEN ctx.size > targetBytes
            ELSE IF expr.comparison = "less" THEN ctx.size < targetBytes
            ELSE IF expr.unit = "b" THEN CeilBlocks(ctx.size) = expr.value
            ELSE ctx.size = targetBytes
      [] expr.type = "not" -> ~evaluateExpression(expr.expr, ctx)
      [] expr.type = "and" ->
            evaluateExpression(expr.left, ctx) /\ evaluateExpression(expr.right, ctx)
      [] expr.type = "or" ->
            evaluateExpression(expr.left, ctx) \/ evaluateExpression(expr.right, ctx)

\* the evaluation raises when a name or path predicate it reaches has a
\* pattern that is no valid regular expression (&& and || short-circuit)
RECURSIVE evaluateThrows(_, _)
evaluateThrows(expr, ctx) ==
    CASE expr.type \in {"name", "path"} -> matchGlobThrows(expr.pattern)
      [] expr.type = "not" -> evaluateThrows(expr.expr, ctx)
      [] expr.type = "and" ->
            \/ evaluateThrows(expr.left, ctx)
            \/ evaluateExpression(expr.left, ctx) /\ evaluateThrows(expr.right, ctx)
      [] expr.type = "or" ->
            \/ evaluateThrows(expr.left, ctx)
            \/ ~evaluateExpression(expr.left, ctx) /\ evaluateThrows(expr.right, ctx)
      [] OTHER -> FALSE

(***************************************************************************)
(* Message texts.                                                          *)
(***************************************************************************)
MsgUnknownPredicate ==
    <<"f", "i", "n", "d", ":", " ", "u", "n", "k", "n", "o", "w", "n", " ",
      "p", "r", "e", "d", "i", "c", "a", "t", "e", " ", "'">>
MsgQuoteNl ==
    <<"'", "\n">>
MsgMissingExecArg ==
    <<"f", "i", "n", "d", ":", " ", "m", "i", "s", "s", "i", "n", "g", " ",
      "a", "r", "g", "u", "m", "e", "n", "t", " ", "t", "o", " ", "`", "-",
      "e", "x", "e", "c", "'", "\n">>
MsgUnknownType ==
    <<"f", "i", "n", "d", ":", " ", "U", "n", "k", "n", "o", "w", "n", " ",
      "a", "r", "g", "u", "m", "e", "n", "t", " ", "t", "o", " ", "-", "t",
      "y", "p", "e", ":", " ">>
MsgFind ==
    <<"f", "i", "n", "d", ":", " ">>
MsgNoSuchFile ==
    <<":", " ", "N", "o", " ", "s", "u", "c", "h", " ", "f", "i", "l", "e",
      " ", "o", "r", " ", "d", "i", "r", "e", "c", "t", "o", "r", "y", "\n">>
MsgCannotDelete ==
    <<"f", "i", "n", "d", ":", " ", "c", "a", "n", "n", "o", "t", " ", "d",
      "e", "l", "e", "t", "e", " ", "'">>
MsgQuoteColon ==
    <<"'", ":", " ">>
MsgExecUnsupported ==
    <<"f", "i", "n", "d", ":", " ", "-", "e", "x", "e", "c", " ", "n", "o",
      "t", " ", "s", "u", "p", "p", "o", "r", "t", "e", "d", " ", "i", "n",
      " ", "t", "h", "i", "s", " ", "c", "o", "n", "t", "e", "x", "t", "\n">>

(***************************************************************************)
(* parseExpressions.  Tokens are expr, op (and / or) and not; actions are  *)
(* exec, print, print0 and delete.  Positions are 1-based: the code's      *)
(* `i + 1 < args.length` is `i < Len(args)` here.                          *)
(***************************************************************************)
ExprToken(e) == [type |-> "expr", expr |-> e]
OpToken(o) == [type |-> "op", op |-> o]
NotToken == [type |-> "not"]

ExecAction(cmd, batch) == [type |-> "exec", command |-> cmd, batchMode |-> batch]
PrintAction == [type |-> "print"]
Print0Action == [type |-> "print0"]
DeleteAction == [type |-> "delete"]

\* a leading "+" is more, a leading "-" is less, otherwise exact
SignComparison(arg) ==
    IF StartsWith(arg, <<"+">>) THEN "more"
    ELSE IF StartsWith(arg, <<"-">>) THEN "less"
    ELSE "exact"

SignBody(arg) ==
    IF StartsWith(arg, <<"+">>) \/ StartsWith(arg, <<"-">>) THEN Slice(arg, 1) ELSE arg

\* sizeStr.match(/^(\d+)([ckMGb])?$/)
SizeUnits == {"c", "k", "M", "G", "b"}
SizeHasUnit(sizeStr) == Len(sizeStr) > 0 /\ sizeStr[Len(sizeStr)] \in SizeUnits
SizeDigits(sizeStr) ==
    IF SizeHasUnit(sizeStr) THEN SubSeq(sizeStr, 1, Len(sizeStr) - 1) ELSE sizeStr
SizeMatch(sizeStr) ==
    /\ Len(SizeDigits(sizeStr)) > 0
    /\ \A k \in 1..Len(SizeDigits(sizeStr)) : SizeDigits(sizeStr)[k] \in Digits

\* the position of the terminator of an -exec that starts collecting at i
RECURSIVE ExecEnd(_, _)
ExecEnd(args, i) ==
    IF i <= Len(args) /\ args[i] # W_semi /\ args[i] # W_plus
    THEN ExecEnd(args, i + 1)
    ELSE i

ParseError(i, msg) == [tokens |-> <<>>, actions |-> <<>>, i |-> i, error |-> msg]

\* the scanning loop: one iteration per call
RECURSIVE ScanArgs(_, _, _, _)
ScanArgs(args, i, tokens, actions) ==
    IF i > Len(args) THEN [tokens |-> tokens, actions |-> actions, i |-> i, error |-> <<>>]
    ELSE LET arg == args[i]
             more == i < Len(args)
         IN
         IF arg = W_name /\ more
         THEN ScanArgs(args, i + 2, Append(tokens, ExprToken(NameExpr(args[i + 1], FALSE))), actions)
         ELSE IF arg = W_iname /\ more
         THEN ScanArgs(args, i + 2, Append(tokens, ExprToken(NameExpr(args[i + 1], TRUE))), actions)
         ELSE IF arg = W_path /\ more
         THEN ScanArgs(args, i + 2, Append(tokens, ExprToken(PathExpr(args[i + 1], FALSE))), actions)
         ELSE IF arg = W_ipath /\ more
         THEN ScanArgs(args, i + 2, Append(tokens, ExprToken(PathExpr(args[i + 1], TRUE))), actions)
         ELSE IF arg = W_type /\ more
         THEN IF args[i + 1] = W_f
              THEN ScanArgs(args, i + 2, Append(tokens, ExprToken(TypeExpr("f"))), actions)
              ELSE IF args[i + 1] = W_d
              THEN ScanArgs(args, i + 2, Append(tokens, ExprToken(TypeExpr("d"))), actions)
              ELSE ParseError(i + 1, MsgUnknownType \o args[i + 1] \o <<"\n">>)
         ELSE IF arg = W_empty
         THEN ScanArgs(args, i + 1, Append(tokens, ExprToken(EmptyExpr)), actions)
         ELSE IF arg = W_mtime /\ more
         THEN LET days == ParseInt(SignBody(args[i + 1])) IN
              IF ~days.nan
              THEN ScanArgs(args, i + 2,
                            Append(tokens, ExprToken(MtimeExpr(days.v, SignComparison(args[i + 1])))),
                            actions)
              ELSE ScanArgs(args, i + 2, tokens, actions)
         ELSE IF arg = W_newer /\ more
         THEN ScanArgs(args, i + 2, Append(tokens, ExprToken(NewerExpr(args[i + 1]))), actions)
         ELSE IF arg = W_size /\ more
         THEN LET sizeStr == SignBody(args[i + 1]) IN
              IF SizeMatch(sizeStr)
              THEN ScanArgs(args, i + 2,
                            Append(tokens,
                                   ExprToken(SizeExpr(ParseInt(SizeDigits(sizeStr)).v,
                                                      IF SizeHasUnit(sizeStr)
                                                      THEN sizeStr[Len(sizeStr)] ELSE "b",
                                                      SignComparison(args[i + 1])))),
                            actions)
              ELSE ScanArgs(args, i + 2, tokens, actions)
         ELSE IF arg = W_not \/ arg = W_bang
         THEN ScanArgs(args, i + 1, Append(tokens, NotToken), actions)
         ELSE IF arg = W_o \/ arg = W_or
         THEN ScanArgs(args, i + 1, Append(tokens, OpToken("or")), actions)
         ELSE IF arg = W_a \/ arg = W_and
         THEN ScanArgs(args, i + 1, Append(tokens, OpToken("and")), actions)
         ELSE IF arg = W_maxdepth \/ arg = W_mindepth
         THEN ScanArgs(args, i + 2, tokens, actions)
         ELSE IF arg = W_exec
         THEN LET e == ExecEnd(args, i + 1) IN
              IF e > Len(args) THEN ParseError(e, MsgMissingExecArg)
              ELSE ScanArgs(args, e + 1, tokens,
                            Append(actions, ExecAction(SubSeq(args, i + 1, e - 1), args[e] = W_plus)))
         ELSE IF arg = W_print
         THEN ScanArgs(args, i + 1, tokens, Append(actions, PrintAction))
         ELSE IF arg = W_print0
         THEN ScanArgs(args, i + 1, tokens, Append(actions, Print0Action))
         ELSE IF arg = W_delete
         THEN ScanArgs(args, i + 1, tokens, Append(actions, DeleteAction))
         ELSE IF StartsWith(arg, <<"-">>)
         THEN ParseError(i, MsgUnknownPredicate \o arg \o MsgQuoteNl)
         ELSE IF Len(tokens) = 0
         THEN ScanArgs(args, i + 1, tokens, actions)
         ELSE [tokens |-> tokens, actions |-> actions, i |-> i, error |-> <<>>]

\* a not token is folded into the expr token right after it; otherwise dropped
RECURSIVE ProcessNots(_, _)
ProcessNots(tokens, j) ==
    IF j > Len(tokens) THEN <<>>
    ELSE IF tokens[j].type = "not"
         THEN IF j + 1 <= Len(tokens) /\ tokens[j + 1].type = "expr"
              THEN <<ExprToken(NotExpr(tokens[j + 1].expr))>> \o ProcessNots(tokens, j + 2)
              ELSE ProcessNots(tokens, j + 1)
         ELSE <<tokens[j]>> \o ProcessNots(tokens, j + 1)

\* as OrGroups, but a new group starts at each AND marker and the OR
\* markers are ignored
RECURSIVE OrGroupsSplitAtAnd(_, _, _)
OrGroupsSplitAtAnd(processedTokens, j, groups) ==
    IF j > Len(processedTokens) THEN groups
    ELSE LET token == processedTokens[j] IN
         IF token.type = "op" /\ token.op = "and"
         THEN OrGroupsSplitAtAnd(processedTokens, j + 1, Append(groups, <<>>))
         ELSE IF token.type = "expr"
         THEN OrGroupsSplitAtAnd(processedTokens, j + 1,
                                 [groups EXCEPT ![Len(groups)] = Append(@, token.expr)])
         ELSE OrGroupsSplitAtAnd(processedTokens, j + 1, groups)

\* first pass: group by OR, collecting AND groups
RECURSIVE OrGroups(_, _, _)
OrGroups(processedTokens, j, groups) ==
    IF j > Len(processedTokens) THEN groups
    ELSE LET token == processedTokens[j] IN
         IF token.type = "op" /\ token.op = "or"
         THEN OrGroups(processedTokens, j + 1, Append(groups, <<>>))
         ELSE IF token.type = "expr"
         THEN OrGroups(processedTokens, j + 1,
                       [groups EXCEPT ![Len(groups)] = Append(@, token.expr)])
         ELSE OrGroups(processedTokens, j + 1, groups)

\* result = group[0]; for j >= 1: result = and(result, group[j])
RECURSIVE FoldAnd(_, _, _)
FoldAnd(group, j, result) ==
    IF j > Len(group) THEN result
    ELSE FoldAnd(group, j + 1, AndExpr(result, group[j]))

\* one conjunction per non-empty group
RECURSIVE AndResults(_, _)
AndResults(groups, j) ==
    IF j > Len(groups) THEN <<>>
    ELSE IF Len(groups[j]) = 0 THEN AndResults(groups, j + 1)
    ELSE <<FoldAnd(groups[j], 2, groups[j][1])>> \o AndResults(groups, j + 1)

\* result = andResults[0]; for j >= 1: result = or(result, andResults[j])
RECURSIVE FoldOr(_, _, _)
FoldOr(andResults, j, result) ==
    IF j > Len(andResults) THEN result
    ELSE FoldOr(andResults, j + 1, OrExpr(result, andResults[j]))

BuildTree(tokens) ==
    LET andResults == AndResults(OrGroups(ProcessNots(tokens, 1), 1, <<<<>>>>), 1)
    IN  IF Len(andResults) = 0 THEN NullExpr
        ELSE FoldOr(andResults, 2, andResults[1])

\* the result is [expr, pathIndex, error, actions]; error <<>> is no error
parseExpressions(args, startIndex) ==
    LET scan == ScanArgs(args, startIndex + 1, <<>>, <<>>) IN
    IF Len(scan.error) > 0
    THEN [expr |-> NullExpr, pathIndex |-> scan.i - 1, error |-> scan.error, actions |-> <<>>]
    ELSE IF Len(scan.tokens) = 0
    THEN [expr |-> NullExpr, pathIndex |-> scan.i - 1, error |-> <<>>, actions |-> scan.actions]
    ELSE [expr |-> BuildTree(scan.tokens), pathIndex |-> scan.i - 1, error |-> <<>>,
          actions |-> scan.actions]

(***************************************************************************)
(* The host file system (ctx.fs): path resolution, stat, readdir, rm.      *)
(* The tree is the scenario of the specification, below /rt:               *)
(*   /rt/a.txt (10 bytes), /rt/b.log (0 bytes), /rt/d/c.txt (5 bytes).     *)
(***************************************************************************)
P_root == <<"/">>
P_rt == <<"/", "r", "t">>
P_a == <<"/", "r", "t", "/", "a", ".", "t", "x", "t">>
P_b == <<"/", "r", "t", "/", "b", ".", "l", "o", "g">>
P_d == <<"/", "r", "t", "/", "d">>
P_c == <<"/", "r", "t", "/", "d", "/", "c", ".", "t", "x", "t">>
N_rt == <<"r", "t">>
N_a == <<"a", ".", "t", "x", "t">>
N_b == <<"b", ".", "l", "o", "g">>
N_d == <<"d">>
N_c == <<"c", ".", "t", "x", "t">>

\* the host clock (Date.now()), in the unit of the modification times
Now == 9

FileEntry(size, mtime) ==
    [isFile |-> TRUE, isDirectory |-> FALSE, size |-> size, hasMtime |-> TRUE,
     mtime |-> mtime, entries |-> <<>>]
DirEntry(mtime, entries) ==
    [isFile |-> FALSE, isDirectory |-> TRUE, size |-> 0, hasMtime |-> TRUE,
     mtime |-> mtime, entries |-> entries]

FsPaths == {P_root, P_rt, P_a, P_b, P_d, P_c}

FsTree ==
    [p \in FsPaths |->
        CASE p = P_root -> DirEntry(1, <<N_rt>>)
          [] p = P_rt -> DirEntry(2, <<N_a, N_b, N_d>>)
          [] p = P_a -> FileEntry(10, 3)
          [] p = P_b -> [FileEntry(0, 1) EXCEPT !.hasMtime = FALSE]
          [] p = P_d -> DirEntry(4, <<N_c>>)
          [] p = P_c -> FileEntry(5, 5)]

\* s.split("/")
RECURSIVE SplitSlash(_, _, _)
SplitSlash(s, k, cur) ==
    IF k > Len(s) THEN <<cur>>
    ELSE IF s[k] = "/" THEN <<cur>> \o SplitSlash(s, k + 1, <<>>)
    ELSE SplitSlash(s, k + 1, Append(cur, s[k]))

\* drop empty and "." components, let ".." remove the component before it
RECURSIVE NormalizeParts(_, _, _)
NormalizeParts(parts, k, acc) ==
    IF k > Len(parts) THEN acc
    ELSE IF parts[k] = <<>> \/ parts[k] = <<".">> THEN NormalizeParts(parts, k + 1, acc)
    ELSE IF parts[k] = <<".", ".">>
         THEN NormalizeParts(parts, k + 1,
                             IF Len(acc) = 0 THEN acc ELSE SubSeq(acc, 1, Len(acc) - 1))
    ELSE NormalizeParts(parts, k + 1, Append(acc, parts[k]))

\* ctx.fs.resolvePath(base, path): the canonical absolute path
resolvePath(base, path) ==
    LET full == IF StartsWith(path, <<"/">>) THEN path ELSE base \o <<"/">> \o path
    IN  <<"/">> \o Join(NormalizeParts(SplitSlash(full, 1, <<>>), 1, <<>>), <<"/">>)

\* currentPath === "/" ? `/${entry}` : `${currentPath}/${entry}`
ChildPath(currentPath, entry) ==
    IF currentPath = <<"/">> THEN <<"/">> \o entry ELSE currentPath \o <<"/">> \o entry

Exists(path, gone) == path \in FsPaths /\ path \notin gone

\* the names ctx.fs.readdir returns, in the host's stable order
Listing(path, gone) ==
    SelectSeq(FsTree[path].entries, LAMBDA e : ChildPath(path, e) \notin gone)

\* what ctx.fs.stat returns for an existing path
StatOf(path) ==
    [isFile |-> FsTree[path].isFile, isDirectory |-> FsTree[path].isDirectory,
     size |-> FsTree[path].size, hasMtime |-> FsTree[path].hasMtime,
     mtime |-> FsTree[path].mtime]

NoStat ==
    [isFile |-> FALSE, isDirectory |-> FALSE, size |-> 0, hasMtime |-> FALSE, mtime |-> 0]

\* stat.mtime?.getTime() ?? Date.now()
MtimeOf(st) == IF st.hasMtime THEN st.mtime ELSE Now

\* a non-recursive removal cannot succeed on a missing path or on a
\* directory that still has entries
RmMustFail(path, gone) ==
    \/ ~Exists(path, gone)
    \/ FsTree[path].isDirectory /\ Len(Listing(path, gone)) > 0

\* the message of the error a failed removal raises
RmErrorMessage == <<"E", "R", "R">>

\* what an external command returns: its output and exit code
ExecResult(code) ==
    [stdout |-> <<"o", "\n">>,
     stderr |-> IF code = 0 THEN <<>> ELSE <<"e", "\n">>,
     exitCode |-> code]

(***************************************************************************)
(* findCommand.execute: the first pass over the arguments, which finds the *)
(* search path and the depth bounds.  A depth bound is [set, nan, v]; set  *)
(* is FALSE for null.                                                      *)
(***************************************************************************)
NoDepth == [set |-> FALSE, nan |-> FALSE, v |-> 0]
Depth(n) == [set |-> TRUE, nan |-> n.nan, v |-> n.v]

RECURSIVE PathScan(_, _, _, _, _)
PathScan(av, i, sp, maxD, minD) ==
    IF i > Len(av) THEN [searchPath |-> sp, maxDepth |-> maxD, minDepth |-> minD]
    ELSE LET arg == av[i] IN
         IF arg = W_maxdepth /\ i < Len(av)
         THEN PathScan(av, i + 2, sp, Depth(ParseInt(av[i + 1])), minD)
         ELSE IF arg = W_mindepth /\ i < Len(av)
         THEN PathScan(av, i + 2, sp, maxD, Depth(ParseInt(av[i + 1])))
         ELSE IF arg = W_exec
         THEN PathScan(av, ExecEnd(av, i + 1) + 1, sp, maxD, minD)
         ELSE IF ~StartsWith(arg, <<"-">>) /\ arg # W_semi /\ arg # W_plus
         THEN PathScan(av, i + 1, arg, maxD, minD)
         ELSE IF arg \in PREDICATES_WITH_ARGS
         THEN PathScan(av, i + 2, sp, maxD, minD)
         ELSE PathScan(av, i + 1, sp, maxD, minD)

\* as BeyondMaxDepth, but one level too deep
BeyondMaxDepthOffByOne(maxD, depth) == maxD.set /\ ~maxD.nan /\ depth > maxD.v + 1

\* maxDepth !== null && depth > maxDepth
BeyondMaxDepth(maxD, depth) == maxD.set /\ ~maxD.nan /\ depth > maxD.v

\* minDepth === null || depth >= minDepth
AtOrBeyondMinDepth(minD, depth) == ~minD.set \/ (~minD.nan /\ depth >= minD.v)

\* the display name of an entry
NameOf(currentPath, base, sp) ==
    IF currentPath = base
    THEN (IF Len(LastComponent(sp)) > 0 THEN LastComponent(sp) ELSE sp)
    ELSE LastComponent(currentPath)

\* the path an entry is reported under
RelativePathOf(currentPath, base, sp) ==
    IF currentPath = base THEN sp
    ELSE IF sp = W_dot THEN <<".", "/">> \o Slice(currentPath, Len(base) + 1)
    ELSE sp \o Slice(currentPath, Len(base))

\* the references of the newer predicates, in the order resolveNewerRefs
\* reaches them
RECURSIVE NewerRefs(_)
NewerRefs(e) ==
    CASE e.type = "newer" -> <<e.refPath>>
      [] e.type = "not" -> NewerRefs(e.expr)
      [] e.type \in {"and", "or"} -> NewerRefs(e.left) \o NewerRefs(e.right)
      [] OTHER -> <<>>

\* the NUL character, one element of a text
NulChar == "\\0"

\* as PrintText, but the separator is appended to an empty list as well
PrintTextAlwaysTerminated(res, sep) == Join(res, sep) \o sep

\* results.join(sep) followed by sep, or nothing for no results
PrintText(res, sep) == IF Len(res) > 0 THEN Join(res, sep) \o sep ELSE <<>>

\* [...results].sort((a, b) => b.length - a.length): stable, longest first
RECURSIVE InsertByLength(_, _)
InsertByLength(sorted, x) ==
    IF Len(sorted) = 0 THEN <<x>>
    ELSE IF Len(Head(sorted)) >= Len(x)
         THEN <<Head(sorted)>> \o InsertByLength(Tail(sorted), x)
         ELSE <<x>> \o sorted

\* as SortForDelete, but shortest first
RECURSIVE InsertByLengthAscending(_, _)
InsertByLengthAscending(sorted, x) ==
    IF Len(sorted) = 0 THEN <<x>>
    ELSE IF Len(Head(sorted)) <= Len(x)
         THEN <<Head(sorted)>> \o InsertByLengthAscending(Tail(sorted), x)
         ELSE <<x>> \o sorted

RECURSIVE SortForDeleteAscending(_)
SortForDeleteAscending(res) ==
    IF Len(res) = 0 THEN <<>>
    ELSE InsertByLengthAscending(SortForDeleteAscending(SubSeq(res, 1, Len(res) - 1)),
                                 res[Len(res)])

RECURSIVE SortForDelete(_)
SortForDelete(res) ==
    IF Len(res) = 0 THEN <<>>
    ELSE InsertByLength(SortForDelete(SubSeq(res, 1, Len(res) - 1)), res[Len(res)])

\* parts.map((p) => `"${p}"`).join(" ")
RECURSIVE QuoteAll(_)
QuoteAll(parts) ==
    IF Len(parts) = 0 THEN <<>>
    ELSE <<(<<"\"">> \o Head(parts) \o <<"\"">>)>> \o QuoteAll(Tail(parts))

CommandLine(parts) == Join(QuoteAll(parts), <<" ">>)

\* batch mode: every "{}" part is replaced by all results
RECURSIVE BatchParts(_, _)
BatchParts(command, res) ==
    IF Len(command) = 0 THEN <<>>
    ELSE (IF Head(command) = W_braces THEN res ELSE <<Head(command)>>)
         \o BatchParts(Tail(command), res)

\* as EachParts, but only the first "{}" part is replaced
EachPartsFirstOnly(command, file) ==
    [k \in 1..Len(command) |->
        IF command[k] = W_braces /\ \A j \in 1..(k - 1) : command[j] # W_braces
        THEN file ELSE command[k]]

\* non-batch mode: every "{}" part is replaced by the one file
EachParts(command, file) ==
    [k \in 1..Len(command) |-> IF command[k] = W_braces THEN file ELSE command[k]]

(***************************************************************************)
(* The state of one invocation of findCommand.execute.                     *)
(***************************************************************************)
VARIABLES
    args,            \* the argument vector
    cwd,             \* ctx.cwd
    execAvail,       \* whether ctx.exec is present
    pc,              \* where execute is
    searchPath, maxDepth, minDepth, expr, actions, basePath,
    refIdx,          \* the next reference resolveNewerRefs reaches
    newerRefTimes,   \* the reference-time cache
    stack,           \* the activations of findRecursive, innermost last
    results,         \* the match list
    ai,              \* the position of the action loop
    fi,              \* the position of the loop over the files of one action
    sortedForDelete,
    stdout, stderr, exitCode,
    ret,             \* how execute completed
    ops,             \* every host operation started, in order
    pending,         \* positions in ops of the operations not yet completed
    removed,         \* the paths removed from the file system
    statFails, rmFails, execFails,
    abandoned,        \* the paths whose stat failed during the traversal
    matched,         \* the absolute paths of the matches, in order
    rmLog,           \* the removals completed: [ai, file, ok]
    actLog           \* the actions started: [ai, type]

inputVars == <<args, cwd, execAvail>>
parseVars == <<searchPath, maxDepth, minDepth, expr, actions, basePath>>
refVars == <<refIdx, newerRefTimes>>
walkVars == <<stack, results, matched>>
actVars == <<ai, fi, sortedForDelete>>
outVars == <<stdout, stderr, exitCode>>
hostVars == <<removed, statFails, rmFails, execFails, abandoned, rmLog, actLog>>
vars == <<inputVars, pc, parseVars, refVars, walkVars, actVars, outVars, ret, ops,
          pending, hostVars>>

StatOp(path) == [kind |-> "stat", arg |-> path]
ReaddirOp(path) == [kind |-> "readdir", arg |-> path]
RmOp(path) == [kind |-> "rm", arg |-> path]
ExecOp(cmd) == [kind |-> "exec", arg |-> cmd]

\* start a host operation; the caller is suspended until it completes
Issue(op, pend) == ops' = Append(ops, op) /\ pending' = pend \cup {Len(ops) + 1}

\* the operation awaited is the one started last
Awaited == Len(ops)
\* as AfterAwait, but the operation is not waited for
AfterAwaitStillPending == pending

AfterAwait == pending \ {Awaited}

\* how execute completed: not yet, by a return statement (site names which
\* one: parseError, noRoot, noExec or end), or by an exception
NotReturned ==
    [kind |-> "none", site |-> "", stdout |-> <<>>, stderr |-> <<>>, exitCode |-> 0]
Returned(site, o, e, c) ==
    [kind |-> "returned", site |-> site, stdout |-> o, stderr |-> e, exitCode |-> c]
Thrown ==
    [kind |-> "thrown", site |-> "", stdout |-> <<>>, stderr |-> <<>>, exitCode |-> 0]

EmptyMap == [x \in {} |-> 0]
MapSet(m, key, val) == [x \in DOMAIN m \cup {key} |-> IF x = key THEN val ELSE m[x]]

Frame(path, depth) ==
    [path |-> path, depth |-> depth, stage |-> "enter", st |-> NoStat,
     entries |-> <<>>, idx |-> 0]

Top == stack[Len(stack)]
SetTop(f) == [stack EXCEPT ![Len(stack)] = f]
Pop == SubSeq(stack, 1, Len(stack) - 1)

\* the outcomes the host may give a stat of path
StatOutcomes(path) ==
    IF ~Exists(path, removed) THEN {FALSE}
    ELSE IF statFails < MaxStatFail THEN {TRUE, FALSE} ELSE {TRUE}

RmOutcomes(path) ==
    IF RmMustFail(path, removed) THEN {FALSE}
    ELSE IF rmFails < MaxRmFail THEN {TRUE, FALSE} ELSE {TRUE}

ExecCodes == IF execFails < MaxExecFail THEN 0..MaxExit ELSE {0}

\* ctx.fs.readdir resolves (TRUE) or rejects (FALSE)
ReaddirOutcomes == BOOLEAN

(***************************************************************************)
(* execute, up to the start of the traversal.                              *)
(***************************************************************************)
\* as Parse, but the search root is looked up before the error is examined
ParseStatsFirst ==
    /\ pc = "start"
    /\ LET ps == PathScan(args, 1, W_dot, NoDepth, NoDepth)
           pr == parseExpressions(args, 0)
       IN  /\ searchPath' = ps.searchPath
           /\ maxDepth' = ps.maxDepth
           /\ minDepth' = ps.minDepth
           /\ expr' = pr.expr
           /\ actions' = pr.actions
           /\ basePath' = resolvePath(cwd, ps.searchPath)
           /\ Issue(StatOp(resolvePath(cwd, ps.searchPath)), pending)
           /\ IF Len(pr.error) > 0
              THEN /\ pc' = "done"
                   /\ ret' = Returned("parseError", <<>>, pr.error, 1)
              ELSE /\ pc' = "statBase"
                   /\ ret' = ret
    /\ UNCHANGED <<inputVars, refVars, walkVars, actVars, outVars, hostVars>>

\* lines 386-434: both passes over the arguments, the parse-error return,
\* and the start of the stat that checks that the search path exists
Parse ==
    /\ pc = "start"
    /\ LET ps == PathScan(args, 1, W_dot, NoDepth, NoDepth)
           pr == parseExpressions(args, 0)
       IN  /\ searchPath' = ps.searchPath
           /\ maxDepth' = ps.maxDepth
           /\ minDepth' = ps.minDepth
           /\ expr' = pr.expr
           /\ actions' = pr.actions
           /\ IF Len(pr.error) > 0
              THEN /\ pc' = "done"
                   /\ ret' = Returned("parseError", <<>>, pr.error, 1)
                   /\ UNCHANGED <<basePath, ops, pending>>
              ELSE /\ basePath' = resolvePath(cwd, ps.searchPath)
                   /\ pc' = "statBase"
                   /\ Issue(StatOp(resolvePath(cwd, ps.searchPath)), pending)
                   /\ ret' = ret
    /\ UNCHANGED <<inputVars, refVars, walkVars, actVars, outVars, hostVars>>

\* lines 426-436: the search root is missing, or resolution of the
\* references begins
StatBaseResume ==
    /\ pc = "statBase"
    /\ Awaited \in pending
    /\ \E ok \in StatOutcomes(basePath) :
        /\ statFails' = IF ~ok /\ Exists(basePath, removed) THEN statFails + 1 ELSE statFails
        /\ IF ok
           THEN /\ pc' = "resolve"
                /\ ret' = ret
           ELSE /\ pc' = "done"
                /\ ret' = Returned("noRoot", <<>>, MsgFind \o searchPath \o MsgNoSuchFile, 1)
    /\ pending' = AfterAwait
    /\ refIdx' = 1
    /\ newerRefTimes' = EmptyMap
    /\ results' = <<>>
    /\ UNCHANGED <<inputVars, parseVars, stack, matched, actVars, outVars, ops,
                   removed, rmFails, execFails, abandoned, rmLog, actLog>>

\* lines 454-471: the next reference is stat'ed, or the traversal starts
ResolveNext ==
    /\ pc = "resolve"
    /\ IF refIdx <= Len(NewerRefs(expr))
       THEN /\ Issue(StatOp(resolvePath(cwd, NewerRefs(expr)[refIdx])), pending)
            /\ pc' = "resolveWait"
            /\ stack' = stack
       ELSE /\ pc' = "find"
            /\ stack' = <<Frame(basePath, 0)>>
            /\ UNCHANGED <<ops, pending>>
    /\ UNCHANGED <<inputVars, parseVars, refVars, results, matched, actVars, outVars,
                   ret, hostVars>>

\* as ResolveResume, but a reference that cannot be stat'ed is cached with
\* time 0
ResolveResumeCachesFailure ==
    /\ pc = "resolveWait"
    /\ Awaited \in pending
    /\ LET refPath == NewerRefs(expr)[refIdx]
           full == resolvePath(cwd, refPath)
       IN  \E ok \in StatOutcomes(full) :
             /\ statFails' = IF ~ok /\ Exists(full, removed) THEN statFails + 1 ELSE statFails
             /\ newerRefTimes' = MapSet(newerRefTimes, refPath,
                                        IF ok THEN MtimeOf(StatOf(full)) ELSE 0)
    /\ pending' = AfterAwait
    /\ refIdx' = refIdx + 1
    /\ pc' = "resolve"
    /\ UNCHANGED <<inputVars, parseVars, walkVars, actVars, outVars, ret, ops,
                   removed, rmFails, execFails, abandoned, rmLog, actLog>>

\* lines 458-463: the reference's time is cached, or the reference is skipped
ResolveResume ==
    /\ pc = "resolveWait"
    /\ Awaited \in pending
    /\ LET refPath == NewerRefs(expr)[refIdx]
           full == resolvePath(cwd, refPath)
       IN  \E ok \in StatOutcomes(full) :
             /\ statFails' = IF ~ok /\ Exists(full, removed) THEN statFails + 1 ELSE statFails
             /\ newerRefTimes' = IF ok THEN MapSet(newerRefTimes, refPath, MtimeOf(StatOf(full)))
                                 ELSE newerRefTimes
    /\ pending' = AfterAwait
    /\ refIdx' = refIdx + 1
    /\ pc' = "resolve"
    /\ UNCHANGED <<inputVars, parseVars, walkVars, actVars, outVars, ret, ops,
                   removed, rmFails, execFails, abandoned, rmLog, actLog>>

(***************************************************************************)
(* findRecursive.  An activation is at stage enter (called), stat or       *)
(* readdir1 or readdir2 (suspended in that await), or loop (iterating over *)
(* the entries).                                                           *)
(***************************************************************************)
EvalCtx(f, st, isEmpty) ==
    [name |-> NameOf(f.path, basePath, searchPath),
     relativePath |-> RelativePathOf(f.path, basePath, searchPath),
     isFile |-> st.isFile,
     isDirectory |-> st.isDirectory,
     isEmpty |-> isEmpty,
     mtime |-> MtimeOf(st),
     size |-> st.size,
     newerRefTimes |-> newerRefTimes,
     now |-> Now]

\* lines 518-535: whether the entry is a match
Matches(f, st, isEmpty) ==
    /\ AtOrBeyondMinDepth(minDepth, f.depth)
    /\ (expr # NullExpr => evaluateExpression(expr, EvalCtx(f, st, isEmpty)))

MatchThrows(f, st, isEmpty) ==
    /\ AtOrBeyondMinDepth(minDepth, f.depth)
    /\ expr # NullExpr
    /\ evaluateThrows(expr, EvalCtx(f, st, isEmpty))

\* lines 518-549, once isEmpty is known: the entry is evaluated and
\* reported, then a directory is listed for the recursion and anything else
\* returns; pend is the set of operations still in flight
MatchThenRecurse(f, st, isEmpty, pend) ==
    IF MatchThrows(f, st, isEmpty)
    THEN /\ pc' = "done"
         /\ ret' = Thrown
         /\ pending' = pend
         /\ UNCHANGED <<stack, results, matched, ops>>
    ELSE /\ results' = IF Matches(f, st, isEmpty)
                       THEN Append(results, RelativePathOf(f.path, basePath, searchPath))
                       ELSE results
         /\ matched' = IF Matches(f, st, isEmpty) THEN Append(matched, f.path) ELSE matched
         /\ UNCHANGED <<pc, ret>>
         /\ IF st.isDirectory
            THEN /\ stack' = SetTop([f EXCEPT !.stage = "readdir2", !.st = st])
                 /\ Issue(ReaddirOp(f.path), pend)
            ELSE /\ stack' = Pop
                 /\ pending' = pend
                 /\ ops' = ops

\* lines 478-485: beyond maxdepth the call returns, otherwise it stats
FindEnter ==
    /\ pc = "find"
    /\ Len(stack) > 0
    /\ Top.stage = "enter"
    /\ IF BeyondMaxDepth(maxDepth, Top.depth)
       THEN /\ stack' = Pop
            /\ UNCHANGED <<ops, pending>>
       ELSE /\ stack' = SetTop([Top EXCEPT !.stage = "stat"])
            /\ Issue(StatOp(Top.path), pending)
    /\ UNCHANGED <<inputVars, pc, parseVars, refVars, results, matched, actVars,
                   outVars, ret, hostVars>>

\* as StatResume, but a failed stat ends the whole traversal
StatResumeAbortsWalk ==
    /\ pc = "find"
    /\ Len(stack) > 0
    /\ Top.stage = "stat"
    /\ Awaited \in pending
    /\ \E ok \in StatOutcomes(Top.path) :
        /\ statFails' = IF ~ok /\ Exists(Top.path, removed) THEN statFails + 1 ELSE statFails
        /\ abandoned' = IF ok THEN abandoned ELSE abandoned \cup {Top.path}
        /\ IF ~ok
           THEN /\ stack' = <<>>
                /\ pending' = AfterAwait
                /\ UNCHANGED <<pc, ret, results, matched, ops>>
           ELSE LET st == StatOf(Top.path) IN
                IF st.isFile
                THEN MatchThenRecurse(Top, st, st.size = 0, AfterAwait)
                ELSE IF st.isDirectory
                THEN /\ stack' = SetTop([Top EXCEPT !.stage = "readdir1", !.st = st])
                     /\ Issue(ReaddirOp(Top.path), AfterAwait)
                     /\ UNCHANGED <<pc, ret, results, matched>>
                ELSE MatchThenRecurse(Top, st, FALSE, AfterAwait)
    /\ UNCHANGED <<inputVars, parseVars, refVars, actVars, outVars,
                   removed, rmFails, execFails, rmLog, actLog>>

\* lines 485-516: a failed stat abandons the entry; a file is evaluated at
\* once, a directory is listed first
StatResume ==
    /\ pc = "find"
    /\ Len(stack) > 0
    /\ Top.stage = "stat"
    /\ Awaited \in pending
    /\ \E ok \in StatOutcomes(Top.path) :
        /\ statFails' = IF ~ok /\ Exists(Top.path, removed) THEN statFails + 1 ELSE statFails
        /\ abandoned' = IF ok THEN abandoned ELSE abandoned \cup {Top.path}
        /\ IF ~ok
           THEN /\ stack' = Pop
                /\ pending' = AfterAwait
                /\ UNCHANGED <<pc, ret, results, matched, ops>>
           ELSE LET st == StatOf(Top.path) IN
                IF st.isFile
                THEN MatchThenRecurse(Top, st, st.size = 0, AfterAwait)
                ELSE IF st.isDirectory
                THEN /\ stack' = SetTop([Top EXCEPT !.stage = "readdir1", !.st = st])
                     /\ Issue(ReaddirOp(Top.path), AfterAwait)
                     /\ UNCHANGED <<pc, ret, results, matched>>
                ELSE MatchThenRecurse(Top, st, FALSE, AfterAwait)
    /\ UNCHANGED <<inputVars, parseVars, refVars, actVars, outVars,
                   removed, rmFails, execFails, rmLog, actLog>>

\* lines 514-543: a directory is empty when its listing is; a listing that
\* fails is caught nowhere
Readdir1Resume ==
    /\ pc = "find"
    /\ Len(stack) > 0
    /\ Top.stage = "readdir1"
    /\ Awaited \in pending
    /\ \E ok \in ReaddirOutcomes :
          IF ok
          THEN MatchThenRecurse(Top, Top.st, Len(Listing(Top.path, removed)) = 0, AfterAwait)
          ELSE /\ pc' = "done"
               /\ ret' = Thrown
               /\ pending' = AfterAwait
               /\ UNCHANGED <<stack, results, matched, ops>>
    /\ UNCHANGED <<inputVars, parseVars, refVars, actVars, outVars, hostVars>>

\* lines 543-544: the entries to recurse into; a listing that fails is
\* caught nowhere
Readdir2Resume ==
    /\ pc = "find"
    /\ Len(stack) > 0
    /\ Top.stage = "readdir2"
    /\ Awaited \in pending
    /\ \E ok \in ReaddirOutcomes :
          IF ok
          THEN /\ stack' = SetTop([Top EXCEPT !.stage = "loop",
                                              !.entries = Listing(Top.path, removed),
                                              !.idx = 1])
               /\ UNCHANGED <<pc, ret>>
          ELSE /\ pc' = "done"
               /\ ret' = Thrown
               /\ UNCHANGED stack
    /\ pending' = AfterAwait
    /\ UNCHANGED <<inputVars, parseVars, refVars, results, matched, actVars,
                   outVars, ops, hostVars>>

\* as LoopNext, but the entries are entered last to first
LoopNextReversed ==
    /\ pc = "find"
    /\ Len(stack) > 0
    /\ Top.stage = "loop"
    /\ IF Top.idx <= Len(Top.entries)
       THEN stack' = Append(SetTop([Top EXCEPT !.idx = Top.idx + 1]),
                            Frame(ChildPath(Top.path,
                                            Top.entries[Len(Top.entries) + 1 - Top.idx]),
                                  Top.depth + 1))
       ELSE stack' = Pop
    /\ UNCHANGED <<inputVars, pc, parseVars, refVars, results, matched, actVars,
                   outVars, ret, ops, pending, hostVars>>

\* lines 544-549: the next entry is entered at depth + 1, or the call returns
LoopNext ==
    /\ pc = "find"
    /\ Len(stack) > 0
    /\ Top.stage = "loop"
    /\ IF Top.idx <= Len(Top.entries)
       THEN stack' = Append(SetTop([Top EXCEPT !.idx = Top.idx + 1]),
                            Frame(ChildPath(Top.path, Top.entries[Top.idx]), Top.depth + 1))
       ELSE stack' = Pop
    /\ UNCHANGED <<inputVars, pc, parseVars, refVars, results, matched, actVars,
                   outVars, ret, ops, pending, hostVars>>

\* lines 552-556: the traversal has returned
FindDone ==
    /\ pc = "find"
    /\ Len(stack) = 0
    /\ pc' = "actions"
    /\ stdout' = <<>>
    /\ stderr' = <<>>
    /\ exitCode' = 0
    /\ ai' = 1
    /\ UNCHANGED <<inputVars, parseVars, refVars, walkVars, fi, sortedForDelete,
                   ret, ops, pending, hostVars>>

(***************************************************************************)
(* The action phase.                                                       *)
(***************************************************************************)
AtAction(kind) ==
    /\ pc = "actions"
    /\ ai <= Len(actions)
    /\ actions[ai].type = kind

\* lines 628-633: no action registered
DefaultPrint ==
    /\ pc = "actions"
    /\ Len(actions) = 0
    /\ pc' = "done"
    /\ ret' = Returned("end", PrintText(results, <<"\n">>), stderr, exitCode)
    /\ stdout' = PrintText(results, <<"\n">>)
    /\ UNCHANGED <<inputVars, parseVars, refVars, walkVars, actVars, stderr, exitCode,
                   ops, pending, hostVars>>

\* lines 562-564
ActPrint ==
    /\ AtAction("print")
    /\ stdout' = stdout \o PrintText(results, <<"\n">>)
    /\ ai' = ai + 1
    /\ actLog' = Append(actLog, [ai |-> ai, type |-> actions[ai].type])
    /\ UNCHANGED <<inputVars, pc, parseVars, refVars, walkVars, fi, sortedForDelete,
                   stderr, exitCode, ret, ops, pending, removed, statFails, abandoned, rmFails, execFails, rmLog>>

\* lines 566-568
ActPrint0 ==
    /\ AtAction("print0")
    /\ stdout' = stdout \o PrintText(results, <<NulChar>>)
    /\ ai' = ai + 1
    /\ actLog' = Append(actLog, [ai |-> ai, type |-> actions[ai].type])
    /\ UNCHANGED <<inputVars, pc, parseVars, refVars, walkVars, fi, sortedForDelete,
                   stderr, exitCode, ret, ops, pending, removed, statFails, abandoned, rmFails, execFails, rmLog>>

\* as ActDelete, but the removals consume the match list
ActDeleteConsumes ==
    /\ AtAction("delete")
    /\ sortedForDelete' = SortForDelete(results)
    /\ results' = <<>>
    /\ fi' = 1
    /\ pc' = "delete"
    /\ actLog' = Append(actLog, [ai |-> ai, type |-> actions[ai].type])
    /\ UNCHANGED <<inputVars, parseVars, refVars, stack, matched, ai, outVars, ret, ops,
                   pending, removed, statFails, abandoned, rmFails, execFails, rmLog>>

\* lines 570-572
ActDelete ==
    /\ AtAction("delete")
    /\ sortedForDelete' = SortForDelete(results)
    /\ fi' = 1
    /\ pc' = "delete"
    /\ actLog' = Append(actLog, [ai |-> ai, type |-> actions[ai].type])
    /\ UNCHANGED <<inputVars, parseVars, refVars, walkVars, ai, outVars, ret, ops,
                   pending, removed, statFails, abandoned, rmFails, execFails, rmLog>>

\* lines 573-576: the next removal starts, or the action is over
DeleteNext ==
    /\ pc = "delete"
    /\ IF fi <= Len(sortedForDelete)
       THEN /\ Issue(RmOp(resolvePath(cwd, sortedForDelete[fi])), pending)
            /\ pc' = "rmWait"
            /\ ai' = ai
       ELSE /\ pc' = "actions"
            /\ ai' = ai + 1
            /\ UNCHANGED <<ops, pending>>
    /\ UNCHANGED <<inputVars, parseVars, refVars, walkVars, fi, sortedForDelete,
                   outVars, ret, hostVars>>

\* as RmResume, but a failed removal ends the loop
RmResumeStopsAtFailure ==
    /\ pc = "rmWait"
    /\ Awaited \in pending
    /\ LET file == sortedForDelete[fi]
           fullPath == resolvePath(cwd, file)
       IN  \E ok \in RmOutcomes(fullPath) :
             /\ rmFails' = IF ~ok /\ ~RmMustFail(fullPath, removed) THEN rmFails + 1 ELSE rmFails
             /\ removed' = IF ok THEN removed \cup {fullPath} ELSE removed
             /\ rmLog' = Append(rmLog, [ai |-> ai, file |-> file, ok |-> ok])
             /\ stderr' = IF ok THEN stderr
                          ELSE stderr \o MsgCannotDelete \o file \o MsgQuoteColon
                                      \o RmErrorMessage \o <<"\n">>
             /\ exitCode' = IF ok THEN exitCode ELSE 1
             /\ fi' = IF ok THEN fi + 1 ELSE Len(sortedForDelete) + 1
    /\ pending' = AfterAwait
    /\ pc' = "delete"
    /\ UNCHANGED <<inputVars, parseVars, refVars, walkVars, ai, sortedForDelete, stdout,
                   ret, ops, statFails, abandoned, execFails, actLog>>

\* lines 576-581: a failed removal adds a line and sets the exit code
RmResume ==
    /\ pc = "rmWait"
    /\ Awaited \in pending
    /\ LET file == sortedForDelete[fi]
           fullPath == resolvePath(cwd, file)
       IN  \E ok \in RmOutcomes(fullPath) :
             /\ rmFails' = IF ~ok /\ ~RmMustFail(fullPath, removed) THEN rmFails + 1 ELSE rmFails
             /\ removed' = IF ok THEN removed \cup {fullPath} ELSE removed
             /\ rmLog' = Append(rmLog, [ai |-> ai, file |-> file, ok |-> ok])
             /\ stderr' = IF ok THEN stderr
                          ELSE stderr \o MsgCannotDelete \o file \o MsgQuoteColon
                                      \o RmErrorMessage \o <<"\n">>
             /\ exitCode' = IF ok THEN exitCode ELSE 1
    /\ pending' = AfterAwait
    /\ fi' = fi + 1
    /\ pc' = "delete"
    /\ UNCHANGED <<inputVars, parseVars, refVars, walkVars, ai, sortedForDelete, stdout,
                   ret, ops, statFails, abandoned, execFails, actLog>>

\* as ActExec, but without ctx.exec the output gathered so far is returned
ActExecKeepsOutput ==
    /\ AtAction("exec")
    /\ IF ~execAvail
       THEN /\ pc' = "done"
            /\ ret' = Returned("noExec", stdout, stderr \o MsgExecUnsupported, 1)
            /\ UNCHANGED <<fi, ops, pending>>
       ELSE IF actions[ai].batchMode
       THEN /\ Issue(ExecOp(CommandLine(BatchParts(actions[ai].command, results))), pending)
            /\ pc' = "execBatchWait"
            /\ UNCHANGED <<fi, ret>>
       ELSE /\ pc' = "execEach"
            /\ fi' = 1
            /\ UNCHANGED <<ret, ops, pending>>
    /\ actLog' = Append(actLog, [ai |-> ai, type |-> actions[ai].type])
    /\ UNCHANGED <<inputVars, parseVars, refVars, walkVars, ai, sortedForDelete, outVars,
                   removed, statFails, abandoned, rmFails, execFails, rmLog>>

\* lines 585-604 and 610-612: without ctx.exec the invocation fails; batch
\* mode starts its one command; otherwise the loop over the results begins
ActExec ==
    /\ AtAction("exec")
    /\ IF ~execAvail
       THEN /\ pc' = "done"
            /\ ret' = Returned("noExec", <<>>, MsgExecUnsupported, 1)
            /\ UNCHANGED <<fi, ops, pending>>
       ELSE IF actions[ai].batchMode
       THEN /\ Issue(ExecOp(CommandLine(BatchParts(actions[ai].command, results))), pending)
            /\ pc' = "execBatchWait"
            /\ UNCHANGED <<fi, ret>>
       ELSE /\ pc' = "execEach"
            /\ fi' = 1
            /\ UNCHANGED <<ret, ops, pending>>
    /\ actLog' = Append(actLog, [ai |-> ai, type |-> actions[ai].type])
    /\ UNCHANGED <<inputVars, parseVars, refVars, walkVars, ai, sortedForDelete, outVars,
                   removed, statFails, abandoned, rmFails, execFails, rmLog>>

\* lines 604-609
ExecBatchResume ==
    /\ pc = "execBatchWait"
    /\ Awaited \in pending
    /\ \E code \in ExecCodes :
        /\ stdout' = stdout \o ExecResult(code).stdout
        /\ stderr' = stderr \o ExecResult(code).stderr
        /\ exitCode' = IF code # 0 THEN code ELSE exitCode
        /\ execFails' = IF code # 0 THEN execFails + 1 ELSE execFails
    /\ pending' = AfterAwait
    /\ ai' = ai + 1
    /\ pc' = "actions"
    /\ UNCHANGED <<inputVars, parseVars, refVars, walkVars, fi, sortedForDelete, ret, ops,
                   removed, statFails, abandoned, rmFails, rmLog, actLog>>

\* lines 612-617: the command for the next result starts, or the action is over
ExecEachNext ==
    /\ pc = "execEach"
    /\ IF fi <= Len(results)
       THEN /\ Issue(ExecOp(CommandLine(EachParts(actions[ai].command, results[fi]))), pending)
            /\ pc' = "execEachWait"
            /\ ai' = ai
       ELSE /\ pc' = "actions"
            /\ ai' = ai + 1
            /\ UNCHANGED <<ops, pending>>
    /\ UNCHANGED <<inputVars, parseVars, refVars, walkVars, fi, sortedForDelete,
                   outVars, ret, hostVars>>

\* as ExecEachResume, but the exit code of the last command is kept
ExecEachResumeLastWins ==
    /\ pc = "execEachWait"
    /\ Awaited \in pending
    /\ \E code \in ExecCodes :
        /\ stdout' = stdout \o ExecResult(code).stdout
        /\ stderr' = stderr \o ExecResult(code).stderr
        /\ exitCode' = code
        /\ execFails' = IF code # 0 THEN execFails + 1 ELSE execFails
    /\ pending' = AfterAwait
    /\ fi' = fi + 1
    /\ pc' = "execEach"
    /\ UNCHANGED <<inputVars, parseVars, refVars, walkVars, ai, sortedForDelete, ret, ops,
                   removed, statFails, abandoned, rmFails, rmLog, actLog>>

\* lines 617-622
ExecEachResume ==
    /\ pc = "execEachWait"
    /\ Awaited \in pending
    /\ \E code \in ExecCodes :
        /\ stdout' = stdout \o ExecResult(code).stdout
        /\ stderr' = stderr \o ExecResult(code).stderr
        /\ exitCode' = IF code # 0 THEN code ELSE exitCode
        /\ execFails' = IF code # 0 THEN execFails + 1 ELSE execFails
    /\ pending' = AfterAwait
    /\ fi' = fi + 1
    /\ pc' = "execEach"
    /\ UNCHANGED <<inputVars, parseVars, refVars, walkVars, ai, sortedForDelete, ret, ops,
                   removed, statFails, abandoned, rmFails, rmLog, actLog>>

\* line 633: every action has run
Finish ==
    /\ pc = "actions"
    /\ Len(actions) > 0
    /\ ai > Len(actions)
    /\ pc' = "done"
    /\ ret' = Returned("end", stdout, stderr, exitCode)
    /\ UNCHANGED <<inputVars, parseVars, refVars, walkVars, actVars, outVars, ops,
                   pending, hostVars>>

(***************************************************************************)
(* The invocations checked: a working directory and an argument vector     *)
(* made of a search path, depth bounds, a predicate and actions.           *)
(***************************************************************************)
G_txt == <<"*", ".", "t", "x", "t">>
G_none == <<"z", "z">>
G_open == <<"[">>
W_bogus == <<"-", "b", "o", "g", "u", "s">>
W_echo == <<"e", "c", "h", "o">>
S_0 == <<"0">>
S_1 == <<"1">>
S_2 == <<"2">>

PathCases ==
    {[cwd |-> P_root, path |-> <<>>],
     [cwd |-> P_root, path |-> <<W_dot>>],
     [cwd |-> P_root, path |-> <<N_rt>>],
     [cwd |-> P_root, path |-> <<N_d>>],
     [cwd |-> P_rt, path |-> <<W_dot>>],
     [cwd |-> P_rt, path |-> <<P_rt>>],
     [cwd |-> P_rt, path |-> <<N_d>>]}

DepthParts ==
    {<<>>,
     <<W_maxdepth, S_0>>,
     <<W_maxdepth, S_1>>,
     <<W_mindepth, S_1>>,
     <<W_mindepth, S_2>>,
     <<W_mindepth, S_1, W_maxdepth, S_1>>}

PredParts ==
    {<<>>,
     <<W_name, G_txt>>,
     <<W_type, W_d>>,
     <<W_newer, N_a>>,
     <<W_bogus>>,
     <<W_name, G_open>>,
     <<W_newer, N_a, W_o, W_newer, N_c>>}

ActionParts ==
    {<<W_print>>,
     <<W_print0>>,
     <<W_delete>>,
     <<W_exec, W_echo, W_braces, W_semi>>,
     <<W_exec, W_echo, W_braces, W_plus>>,
     <<W_exec, W_echo, W_braces>>,
     <<W_print, W_exec, W_echo, W_braces, W_semi>>,
     <<W_exec, W_echo, W_braces, W_braces, W_semi, W_delete>>,
     <<W_delete, W_print>>,
     <<W_exec, W_braces, W_echo, W_braces, W_plus, W_exec, W_echo, W_semi>>,
     <<W_print, W_print>>,
     <<W_delete, W_exec, W_echo, W_braces, W_semi>>}

\* every traversal, with the default action or one print
WalkInputs ==
    {[cwd |-> c.cwd, args |-> c.path \o d \o e \o a] :
        c \in PathCases, d \in DepthParts, e \in PredParts, a \in {<<>>, <<W_print>>}}

\* every action list, over a full, a partial and an empty match list
ActionInputs ==
    {[cwd |-> c.cwd, args |-> c.path \o e \o a] :
        c \in {[cwd |-> P_rt, path |-> <<W_dot>>], [cwd |-> P_root, path |-> <<N_rt>>]},
        e \in {<<>>, <<W_name, G_txt>>, <<W_name, G_none>>},
        a \in ActionParts}

\* a removal of everything below the root directory, named by "."
RootDeleteInputs == {[cwd |-> P_root, args |-> <<W_dot, W_delete>>]}

Inputs == WalkInputs \cup ActionInputs \cup RootDeleteInputs

HasExec(av) == \E k \in 1..Len(av) : av[k] = W_exec

InitRest ==
    /\ pc = "start"
    /\ searchPath = W_dot
    /\ maxDepth = NoDepth
    /\ minDepth = NoDepth
    /\ expr = NullExpr
    /\ actions = <<>>
    /\ basePath = <<>>
    /\ refIdx = 1
    /\ newerRefTimes = EmptyMap
    /\ stack = <<>>
    /\ results = <<>>
    /\ matched = <<>>
    /\ ai = 1
    /\ fi = 1
    /\ sortedForDelete = <<>>
    /\ stdout = <<>>
    /\ stderr = <<>>
    /\ exitCode = 0
    /\ ret = NotReturned
    /\ ops = <<>>
    /\ pending = {}
    /\ removed = {}
    /\ statFails = 0
    /\ abandoned = {}
    /\ rmFails = 0
    /\ execFails = 0
    /\ rmLog = <<>>
    /\ actLog = <<>>

Init ==
    /\ \E inp \in Inputs :
        /\ cwd = inp.cwd
        /\ args = inp.args
        /\ execAvail \in (IF HasExec(inp.args) THEN BOOLEAN ELSE {TRUE})
    /\ InitRest

Next ==
    \/ Parse
    \/ StatBaseResume
    \/ ResolveNext
    \/ ResolveResume
    \/ FindEnter
    \/ StatResume
    \/ Readdir1Resume
    \/ Readdir2Resume
    \/ LoopNext
    \/ FindDone
    \/ DefaultPrint
    \/ ActPrint
    \/ ActPrint0
    \/ ActDelete
    \/ DeleteNext
    \/ RmResume
    \/ ActExec
    \/ ExecBatchResume
    \/ ExecEachNext
    \/ ExecEachResume
    \/ Finish

Spec == Init /\ [][Next]_vars

(***************************************************************************)
(* The parser alone, over every sequence of up to MaxItems items, an item  *)
(* being a name predicate or an operator word.                             *)
(***************************************************************************)
ParseItems ==
    {<<W_name, <<"a">>>>, <<W_name, <<"b">>>>, <<W_name, <<"?">>>>,
     <<W_o>>, <<W_or>>, <<W_a>>, <<W_and>>}

ItemSeqs == UNION {[1..n -> ParseItems] : n \in 0..MaxItems}

RECURSIVE Flatten(_)
Flatten(items) == IF Len(items) = 0 THEN <<>> ELSE Head(items) \o Flatten(Tail(items))

InitParse ==
    /\ \E items \in ItemSeqs : args = Flatten(items)
    /\ cwd = P_rt
    /\ execAvail = TRUE
    /\ InitRest

NextParse == Parse

SpecParse == InitParse /\ [][NextParse]_vars

(***************************************************************************)
(* Invocations with one size predicate: a sign, a one-digit value and a    *)
(* unit.                                                                   *)
(***************************************************************************)
SizeSigns == {<<>>, <<"+">>, <<"-">>}

SizeSuffixes == {<<>>, <<"b">>, <<"c">>, <<"k">>, <<"M">>, <<"G">>}

\* value * 1024 * 1024 * 1024 is kept below 2^31
SizeArgs ==
    {a \in {sg \o <<d>> \o u :
                sg \in SizeSigns,
                d \in {c \in Digits : DigitVal(c) <= MaxSizeValue},
                u \in SizeSuffixes} :
        a[Len(a)] = "G" => DigitVal(a[Len(a) - 1]) <= 1}

InitSize ==
    /\ \E a \in SizeArgs : args = <<W_size, a>>
    /\ cwd = P_rt
    /\ execAvail = TRUE
    /\ InitRest

NextSize == Parse

SpecSize == InitSize /\ [][NextSize]_vars

(***************************************************************************)
(* Invocations made of negation markers, name predicates and -o.           *)
(***************************************************************************)
NotItems ==
    {<<W_not>>, <<W_bang>>, <<W_name, <<"a">>>>, <<W_name, <<"b">>>>, <<W_o>>}

NotItemSeqs == UNION {[1..n -> NotItems] : n \in 0..MaxNotItems}

InitNot ==
    /\ \E items \in NotItemSeqs : args = Flatten(items)
    /\ cwd = P_rt
    /\ execAvail = TRUE
    /\ InitRest

NextNot == Parse

SpecNot == InitNot /\ [][NextNot]_vars

(***************************************************************************)
(* Properties.                                                             *)
(***************************************************************************)
\* the entries a parsed expression is evaluated on: files named a, b, c, ab
TestNames == {<<"a">>, <<"b">>, <<"c">>, <<"a", "b">>}

NameCtx(n) ==
    [name |-> n, relativePath |-> n, isFile |-> TRUE, isDirectory |-> FALSE,
     isEmpty |-> FALSE, mtime |-> 0, size |-> 0, newerRefTimes |-> EmptyMap, now |-> 0]

\* the argument vector is name predicates joined by adjacency, -a/-and or
\* -o/-or: it starts and ends with a predicate and no two operators meet
RECURSIVE Joined(_, _, _)
Joined(av, i, afterPred) ==
    IF i > Len(av) THEN afterPred
    ELSE IF av[i] = W_name /\ i < Len(av) THEN Joined(av, i + 2, TRUE)
    ELSE IF av[i] \in {W_o, W_or, W_a, W_and} THEN afterPred /\ Joined(av, i + 1, FALSE)
    ELSE FALSE

WellJoined(av) == Joined(av, 1, FALSE)

\* the patterns of the argument vector, grouped at the -o/-or words
RECURSIVE PatternGroups(_, _, _)
PatternGroups(av, i, groups) ==
    IF i > Len(av) THEN groups
    ELSE IF av[i] = W_name /\ i < Len(av)
         THEN PatternGroups(av, i + 2, [groups EXCEPT ![Len(groups)] = Append(@, av[i + 1])])
    ELSE IF av[i] \in {W_o, W_or} THEN PatternGroups(av, i + 1, Append(groups, <<>>))
    ELSE PatternGroups(av, i + 1, groups)

OrOfAnds(av, n) ==
    LET groups == PatternGroups(av, 1, <<<<>>>>)
    IN  \E g \in 1..Len(groups) :
            \A k \in 1..Len(groups[g]) : matchGlob(n, groups[g][k], FALSE)

\* C1: for arguments that are predicates joined by adjacency, -a/-and and
\* -o/-or, the tree parseExpressions builds evaluates, on every entry, to
\* the OR over the groups delimited by -o of the AND of each group's
\* predicates
C1_Precedence ==
    (pc # "start" /\ WellJoined(args)) =>
        /\ ret.kind = "none"
        /\ expr # NullExpr
        /\ \A n \in TestNames : evaluateExpression(expr, NameCtx(n)) = OrOfAnds(args, n)

\* -name a -o -name b -a -name ? was parsed to a OR (b AND ?), which holds
\* of the entry b and not of the entry c
C1_Witness ==
    /\ pc # "start"
    /\ args = <<W_name, <<"a">>, W_o, W_name, <<"b">>, W_a, W_name, <<"?">>>>
    /\ expr = OrExpr(NameExpr(<<"a">>, FALSE),
                     AndExpr(NameExpr(<<"b">>, FALSE), NameExpr(<<"?">>, FALSE)))
    /\ evaluateExpression(expr, NameCtx(<<"b">>))
    /\ ~evaluateExpression(expr, NameCtx(<<"c">>))

\* the components of an absolute path, and the depth of p below base
Components(p) == NormalizeParts(SplitSlash(p, 1, <<>>), 1, <<>>)
DepthBelow(p, base) == Len(Components(p)) - Len(Components(base))
IsUnder(p, base) ==
    /\ Len(Components(p)) >= Len(Components(base))
    /\ SubSeq(Components(p), 1, Len(Components(base))) = Components(base)

\* the positions in ops of the traversal's stats and listings: those after
\* the stat of the search root and the stats of the references
TraversalOps ==
    {k \in 1..Len(ops) : k > 1 + Len(NewerRefs(expr)) /\ ops[k].kind \in {"stat", "readdir"}}

\* the traversal has just returned
TraversalComplete == pc = "actions" /\ ai = 1 /\ actLog = <<>>

IsEmptyEntry(p) ==
    IF FsTree[p].isFile THEN FsTree[p].size = 0 ELSE Len(FsTree[p].entries) = 0

WithinDepthBounds(d) ==
    /\ (maxDepth.set => d <= maxDepth.v)
    /\ (minDepth.set => d >= minDepth.v)

\* the entries below the search root, within the depth bounds, that the
\* expression holds of
ExpectedMatches ==
    {p \in FsPaths :
        /\ IsUnder(p, basePath)
        /\ WithinDepthBounds(DepthBelow(p, basePath))
        /\ (expr # NullExpr =>
                evaluateExpression(expr,
                    EvalCtx(Frame(p, DepthBelow(p, basePath)), StatOf(p), IsEmptyEntry(p))))}

\* C2: the traversal never stats or lists an entry deeper than maxDepth and
\* reports none; every match is at depth minDepth or more; and entries
\* above minDepth are still traversed: when no stat fails, the matches are
\* exactly the entries within the depth bounds that the expression holds of
C2_DepthBounds ==
    /\ maxDepth.set =>
          /\ \A k \in TraversalOps : DepthBelow(ops[k].arg, basePath) <= maxDepth.v
          /\ \A k \in 1..Len(matched) : DepthBelow(matched[k], basePath) <= maxDepth.v
    /\ minDepth.set =>
          \A k \in 1..Len(matched) : DepthBelow(matched[k], basePath) >= minDepth.v
    /\ (TraversalComplete /\ statFails = 0) =>
          {matched[k] : k \in 1..Len(matched)} = ExpectedMatches

\* -mindepth 1 -maxdepth 1 below /rt: the root was visited and not
\* reported, its three entries were reported, /rt/d/c.txt was never stat'ed
C2_Witness ==
    /\ TraversalComplete
    /\ basePath = P_rt
    /\ minDepth = Depth(Num(1))
    /\ maxDepth = Depth(Num(1))
    /\ matched = <<P_a, P_b, P_d>>
    /\ \E k \in TraversalOps : ops[k] = StatOp(P_rt)
    /\ \A k \in 1..Len(ops) : ops[k].arg # P_c

\* the path the entry p is to be reported under: the search path for the
\* search root, "./" and the components of p below the root when the search
\* path is ".", and otherwise the search path and the rest of p after the
\* root's path
ClaimedRelativePath(p) ==
    IF p = basePath THEN searchPath
    ELSE IF searchPath = W_dot
         THEN <<".", "/">> \o Join(SubSeq(Components(p), Len(Components(basePath)) + 1,
                                          Len(Components(p))), <<"/">>)
    ELSE searchPath \o Slice(p, Len(basePath))

\* C3: every match is reported under the search path for the search root,
\* "./" followed by all path components below the root when the search
\* path is ".", the search path followed by the suffix beyond the root
\* otherwise; it is absolute only if the search path is
C3_RelativePath ==
    \A k \in 1..Len(results) :
        /\ results[k] = ClaimedRelativePath(matched[k])
        /\ (StartsWith(results[k], <<"/">>) => StartsWith(searchPath, <<"/">>))

\* p comes before q in depth-first pre-order: p is a directory above q,
\* or, below the last directory they share, p is in or under an entry that
\* the listing of that directory returns before the entry q is in or under
IsProperAncestor(p, q) ==
    /\ Len(Components(p)) < Len(Components(q))
    /\ SubSeq(Components(q), 1, Len(Components(p))) = Components(p)

FirstDifference(cp, cq) ==
    CHOOSE i \in 1..Len(cp) : cp[i] # cq[i] /\ \A j \in 1..(i - 1) : cp[j] = cq[j]

PositionIn(seq, x) == CHOOSE k \in 1..Len(seq) : seq[k] = x

PreOrderBefore(p, q) ==
    LET cp == Components(p)
        cq == Components(q)
    IN  \/ IsProperAncestor(p, q)
        \/ /\ p # q
           /\ ~IsProperAncestor(q, p)
           /\ LET i == FirstDifference(cp, cq)
                  listing == FsTree[<<"/">> \o Join(SubSeq(cp, 1, i - 1), <<"/">>)].entries
              IN  PositionIn(listing, cp[i]) < PositionIn(listing, cq[i])

\* C4: the match list is in depth-first pre-order: a matched directory
\* comes before the matches below it, and matches under different entries
\* of a directory come in the order of that directory's listing; -name
\* *.txt over /rt reports a.txt, then d/c.txt, and nothing else
C4_PreOrder ==
    /\ Len(results) = Len(matched)
    /\ \A i, j \in 1..Len(matched) : i < j => PreOrderBefore(matched[i], matched[j])
    /\ (/\ TraversalComplete
        /\ statFails = 0
        /\ basePath = P_rt
        /\ expr = NameExpr(G_txt, FALSE)
        /\ ~maxDepth.set
        /\ ~minDepth.set) => matched = <<P_a, P_c>>

\* every entry below /rt matched: the directories /rt and /rt/d come before
\* their entries, and a.txt and b.log before what is under d
C4_Witness ==
    /\ TraversalComplete
    /\ matched = <<P_rt, P_a, P_b, P_d, P_c>>

\* each path followed by a newline
RECURSIVE ExpectedLines(_)
ExpectedLines(res) ==
    IF Len(res) = 0 THEN <<>>
    ELSE Head(res) \o <<"\n">> \o ExpectedLines(Tail(res))

\* C5: with no action registered, as with a single -print, the invocation
\* returns the matches one per line (nothing for no match), an empty
\* stderr and exit code 0
C5_DefaultPrint ==
    (/\ pc = "done"
     /\ ret.site = "end"
     /\ (actions = <<>> \/ actions = <<PrintAction>>)) =>
        /\ ret.kind = "returned"
        /\ ret.stdout = ExpectedLines(results)
        /\ ret.stderr = <<>>
        /\ ret.exitCode = 0

\* an invocation without actions returned two or more matches
C5_Witness ==
    /\ pc = "done"
    /\ ret.site = "end"
    /\ actions = <<>>
    /\ Len(results) >= 2
    /\ Len(ret.stdout) > 0

RmOps == SelectSeq(ops, LAMBDA o : o.kind = "rm")
FailedRemovals == Cardinality({k \in 1..Len(rmLog) : ~rmLog[k].ok})

\* exactly one -delete, and no -exec, among the actions
DeleteOnce ==
    /\ Cardinality({k \in 1..Len(actions) : actions[k].type = "delete"}) = 1
    /\ \A k \in 1..Len(actions) : actions[k].type # "exec"

\* C6: -delete attempts the removal of every match exactly once; when every
\* removal succeeds stderr is empty and the exit code 0; when exactly one
\* fails stderr has exactly one line, the exit code is 1, and the other
\* removals were still attempted
C6_Delete ==
    (pc = "done" /\ ret.site = "end" /\ DeleteOnce) =>
        /\ Len(RmOps) = Len(results)
        /\ \A i \in 1..Len(results) :
              Cardinality({k \in 1..Len(RmOps) :
                              RmOps[k].arg = resolvePath(cwd, results[i])}) = 1
        /\ (FailedRemovals = 0 => ret.stderr = <<>> /\ ret.exitCode = 0)
        /\ (FailedRemovals = 1 => NumLines(ret.stderr) = 1 /\ ret.exitCode = 1)

\* one removal failed and the removal after it was attempted and succeeded
C6_Witness ==
    /\ pc = "done"
    /\ ret.site = "end"
    /\ actions = <<DeleteAction>>
    /\ FailedRemovals = 1
    /\ \E k \in 1..(Len(rmLog) - 1) : ~rmLog[k].ok /\ rmLog[k + 1].ok

ExecOps == SelectSeq(ops, LAMBDA o : o.kind = "exec")

\* the template with every "{}" part replaced by the parts repl
RECURSIVE Substituted(_, _)
Substituted(command, repl) ==
    IF Len(command) = 0 THEN <<>>
    ELSE (IF Head(command) = <<"{", "}">> THEN repl ELSE <<Head(command)>>)
         \o Substituted(Tail(command), repl)

\* the command lines of the -exec actions acts over the match list res:
\* one per match for ";", in the order of the list, and one for "+"
RECURSIVE ExpectedExecs(_, _)
ExpectedExecs(acts, res) ==
    IF Len(acts) = 0 THEN <<>>
    ELSE (IF Head(acts).type # "exec" THEN <<>>
          ELSE IF Head(acts).batchMode
               THEN <<CommandLine(Substituted(Head(acts).command, res))>>
               ELSE [k \in 1..Len(res) |->
                        CommandLine(Substituted(Head(acts).command, <<res[k]>>))])
         \o ExpectedExecs(Tail(acts), res)

\* C7: with ctx.exec present, an -exec ... ; runs the command once per
\* match, in the order of the match list, each "{}" replaced by that match
\* and each run awaited before the next starts; an -exec ... + runs the
\* command once, for an empty match list too, each "{}" replaced by the
\* whole match list
C7_Exec ==
    /\ pending \subseteq {Len(ops)}
    /\ (pc = "done" /\ ret.site = "end") =>
          [k \in 1..Len(ExecOps) |-> ExecOps[k].arg] = ExpectedExecs(actions, results)

\* an -exec ... ; with a "{}" in its template ran over two or more matches
C7_Witness ==
    /\ pc = "done"
    /\ ret.site = "end"
    /\ Len(results) >= 2
    /\ Len(ExecOps) >= Len(results)
    /\ \E k \in 1..Len(actions) :
          /\ actions[k].type = "exec"
          /\ ~actions[k].batchMode
          /\ \E j \in 1..Len(actions[k].command) : actions[k].command[j] = W_braces

ActionPhase ==
    pc \in {"actions", "delete", "rmWait", "execBatchWait", "execEach", "execEachWait"}

IsTraversalOp(o) == o.kind \in {"stat", "readdir"}

IsEffectOp(o) == o.kind \in {"rm", "exec"}

\* every path of res followed by sep
RECURSIVE Terminated(_, _)
Terminated(res, sep) ==
    IF Len(res) = 0 THEN <<>> ELSE Head(res) \o sep \o Terminated(Tail(res), sep)

\* what the actions acts write to stdout over the match list res, when
\* none of them is an -exec
RECURSIVE ExpectedPrints(_, _)
ExpectedPrints(acts, res) ==
    IF Len(acts) = 0 THEN <<>>
    ELSE (CASE Head(acts).type = "print"  -> Terminated(res, <<"\n">>)
            [] Head(acts).type = "print0" -> Terminated(res, <<NulChar>>)
            [] OTHER -> <<>>)
         \o ExpectedPrints(Tail(acts), res)

\* the paths whose removal the k-th action asked for
RemovalsOf(k) ==
    LET own == SelectSeq(rmLog, LAMBDA r : r.ai = k)
    IN  [i \in 1..Len(own) |-> own[i].file]

SameElements(s, t) ==
    /\ Len(s) = Len(t)
    /\ \A x \in {s[i] : i \in 1..Len(s)} :
          Cardinality({i \in 1..Len(s) : s[i] = x})
              = Cardinality({i \in 1..Len(t) : t[i] = x})

CollectedBeforeActing ==
    /\ \A i \in 1..Len(ops) : \A j \in 1..Len(ops) :
          (IsEffectOp(ops[i]) /\ IsTraversalOp(ops[j])) => j < i /\ j \notin pending
    /\ (\E i \in 1..Len(ops) : IsEffectOp(ops[i])) =>
          /\ stack = <<>>
          /\ ActionPhase \/ pc = "done"

InRegistrationOrder ==
    /\ Len(actLog) <= Len(actions)
    /\ \A k \in 1..Len(actLog) : actLog[k] = [ai |-> k, type |-> actions[k].type]
    /\ (pc = "done" /\ ret.site = "end" /\ Len(actions) > 0) => Len(actLog) = Len(actions)

OverTheWholeList ==
    (pc = "done" /\ ret.site = "end") =>
        /\ \A k \in 1..Len(actions) :
              actions[k].type = "delete" => SameElements(RemovalsOf(k), results)
        /\ [k \in 1..Len(ExecOps) |-> ExecOps[k].arg] = ExpectedExecs(actions, results)
        /\ (Len(actions) > 0 /\ \A k \in 1..Len(actions) : actions[k].type # "exec") =>
              ret.stdout = ExpectedPrints(actions, results)

\* C8: no removal and no command execution happens before the last stat
\* or directory listing of the traversal has completed; the registered
\* actions then run in registration order, each over the same complete
\* match list, which no action changes
C8_CollectThenAct ==
    /\ [](CollectedBeforeActing /\ InRegistrationOrder /\ OverTheWholeList)
    /\ [][(ActionPhase \/ pc = "done") => results' = results]_vars

\* a removal that succeeded, followed by a print of the whole list
C8_Witness ==
    /\ pc = "done"
    /\ ret.site = "end"
    /\ Len(actions) = 2
    /\ actions[1].type = "delete"
    /\ actions[2].type = "print"
    /\ Len(results) >= 2
    /\ \E k \in 1..Len(rmLog) : rmLog[k].ok
    /\ Len(ret.stdout) > 0

\* an argument vector with an unrecognized flag where a predicate is
\* expected, or with an -exec that no ";" or "+" follows
UnknownFlag(av) == \E i \in 1..Len(av) : av[i] = W_bogus

UnterminatedExec(av) ==
    \E i \in 1..Len(av) :
        /\ av[i] = W_exec
        /\ \A j \in (i + 1)..Len(av) : av[j] \notin {W_semi, W_plus}

\* C9: on a parse error (an unrecognized flag, or -exec without its
\* terminator) the result is an empty stdout, one descriptive line on
\* stderr and exit code 1, and no stat, directory listing, removal or
\* command execution is performed
C9_ParseError ==
    /\ ((UnknownFlag(args) \/ UnterminatedExec(args)) /\ pc # "start") =>
          pc = "done" /\ ret.site = "parseError"
    /\ (pc = "done" /\ ret.site = "parseError") =>
          /\ ret.kind = "returned"
          /\ ret.stdout = <<>>
          /\ NumLines(ret.stderr) = 1
          /\ ret.stderr[Len(ret.stderr)] = "\n"
          /\ StartsWith(ret.stderr, MsgFind)
          /\ ret.exitCode = 1
          /\ ops = <<>>
          /\ pending = {}
          /\ results = <<>>
          /\ removed = {}

\* an invocation with an unrecognized flag has returned
C9_Witness ==
    /\ pc = "done"
    /\ ret.site = "parseError"
    /\ UnknownFlag(args)
    /\ Len(ret.stderr) > 0

ExecRegistered == \E k \in 1..Len(actions) : actions[k].type = "exec"

\* C10: when an -exec action is registered and ctx.exec is absent, the
\* invocation returns exit code 1, one line on stderr and an empty stdout,
\* whatever the actions before the -exec wrote; no command is executed
C10_ExecUnsupported ==
    /\ (pc = "done" /\ ret.kind = "returned" /\ ExecRegistered /\ ~execAvail) =>
          /\ ret.exitCode = 1
          /\ NumLines(ret.stderr) = 1
          /\ ret.stderr[Len(ret.stderr)] = "\n"
          /\ ret.stdout = <<>>
    /\ (pc = "done" /\ ret.site = "noExec") =>
          /\ ExecRegistered /\ ~execAvail
          /\ ret.stderr = MsgExecUnsupported
    /\ ~execAvail => ExecOps = <<>>

\* a -print before the -exec had written to stdout when the invocation
\* returned
C10_Witness ==
    /\ pc = "done"
    /\ ret.site = "noExec"
    /\ Len(stdout) > 0

\* C11: execute completes by returning a (stdout, stderr, exitCode)
\* triple and never by raising an exception, whatever the capabilities do
\* and whatever the pattern arguments are
C11_NothingThrown ==
    pc = "done" => ret.kind = "returned"

\* p is an abandoned entry or lies below one
Abandoned(p) == \E a \in abandoned : IsUnder(p, a)

\* p lies strictly below an abandoned entry
BelowAbandoned(p) == \E a \in abandoned : a # p /\ IsUnder(p, a)

NoEffectAction == \A k \in 1..Len(actions) : actions[k].type \in {"print", "print0"}

TraversalStarted ==
    \/ pc = "find"
    \/ ActionPhase
    \/ pc = "done" /\ (ret.kind = "thrown" \/ ret.site \in {"end", "noExec"})

RefSet == {NewerRefs(expr)[k] : k \in 1..Len(NewerRefs(expr))}

\* the reference r is never newer-than matched: its predicate is false of
\* every entry of the file system
NeverNewer(r) ==
    \A p \in FsPaths :
        ~evaluateExpression(NewerExpr(r),
            EvalCtx(Frame(p, DepthBelow(p, basePath)), StatOf(p), IsEmptyEntry(p)))

CacheFilledFirst ==
    TraversalStarted =>
        /\ Len(ops) >= 1 + Len(NewerRefs(expr))
        /\ \A k \in 1..Len(NewerRefs(expr)) :
              ops[1 + k] = StatOp(resolvePath(cwd, NewerRefs(expr)[k]))
        /\ \A k \in 1..(1 + Len(NewerRefs(expr))) : k \notin pending
        /\ DOMAIN newerRefTimes \subseteq RefSet
        /\ \A r \in RefSet :
              /\ ~Exists(resolvePath(cwd, r), {}) => r \notin DOMAIN newerRefTimes
              /\ r \in DOMAIN newerRefTimes =>
                    newerRefTimes[r] = MtimeOf(StatOf(resolvePath(cwd, r)))
              /\ r \notin DOMAIN newerRefTimes => NeverNewer(r)

UncachedIsNoError ==
    /\ (TraversalComplete /\ expr.type = "newer" /\ expr.refPath \notin DOMAIN newerRefTimes) =>
          matched = <<>> /\ stderr = <<>> /\ exitCode = 0
    /\ (/\ pc = "done" /\ ret.site = "end" /\ NoEffectAction
        /\ expr.type = "newer" /\ expr.refPath \notin DOMAIN newerRefTimes) =>
          ret = Returned("end", <<>>, <<>>, 0)

\* C13: every reference of the expression is stat'ed, and cached when the
\* stat succeeds, before the first stat of the traversal; the cache is not
\* written once the traversal has started; a reference that could not be
\* stat'ed is absent from the cache, its predicate is false of every entry
\* and neither stderr nor the exit code shows it
C13_ReferenceCache ==
    /\ [](CacheFilledFirst /\ UncachedIsNoError)
    /\ [][TraversalStarted => newerRefTimes' = newerRefTimes]_vars

\* two references, one cached and one missing, and a completed traversal
\* that reported something
C13_Witness ==
    /\ pc = "done"
    /\ ret.site = "end"
    /\ Len(NewerRefs(expr)) = 2
    /\ DOMAIN newerRefTimes = {N_a}
    /\ N_c \in RefSet
    /\ Len(matched) > 0
    /\ ret.exitCode = 0

\* the activations of findRecursive form one chain: each is the call made
\* by the loop of the one before it, and only the innermost can be suspended
\* in a host operation
SingleChain ==
    \A i \in 1..(Len(stack) - 1) :
        /\ stack[i].stage = "loop"
        /\ stack[i].idx - 1 \in 1..Len(stack[i].entries)
        /\ stack[i + 1].path = ChildPath(stack[i].path, stack[i].entries[stack[i].idx - 1])
        /\ stack[i + 1].depth = stack[i].depth + 1

OneInFlight ==
    /\ Cardinality(pending) <= 1
    /\ pending \subseteq {Len(ops)}
    /\ \A k \in pending : ops[k].kind \in {"stat", "readdir", "rm", "exec"}

\* C14: at most one host operation (stat, directory listing, removal,
\* command execution) is in flight at any time, each is awaited before the
\* next is started, the activations of findRecursive are never traversed in
\* parallel, and the match list only grows, by one path, in a step in which
\* no earlier operation is still in flight
C14_OneAtATime ==
    /\ [](OneInFlight /\ SingleChain)
    /\ [][/\ Len(ops') > Len(ops) => (Len(ops') = Len(ops) + 1 /\ pending' = {Len(ops')})
          /\ results' # results =>
                /\ Len(results') = Len(results) + 1
                /\ SubSeq(results', 1, Len(results)) = results
                /\ pending' \cap 1..Len(ops) = {}]_vars

\* a stat two levels below the search root is in flight, after its
\* ancestors' and earlier siblings' operations have completed
C14_Witness ==
    /\ pc = "find"
    /\ Len(stack) = 3
    /\ Top.stage = "stat"
    /\ pending = {Len(ops)}
    /\ Len(ops) >= 6
    /\ Len(results) >= 2

SizeCtx(bytes) ==
    [name |-> N_a, relativePath |-> N_a, isFile |-> TRUE, isDirectory |-> FALSE,
     isEmpty |-> bytes = 0, mtime |-> 0, size |-> bytes, newerRefTimes |-> EmptyMap,
     now |-> 0]

\* the byte sizes tried: every size up to three blocks and a byte, and the
\* sizes next to the multiples of the larger units
SizeSamples ==
    (0..1537)
    \cup {k * 1024 + d : k \in 1..(MaxSizeValue + 1), d \in {-1, 0, 1}}
    \cup {k * 1048576 + d : k \in 0..(MaxSizeValue + 1), d \in {0, 1}}
    \cup {k * 1048576 - 1 : k \in 1..(MaxSizeValue + 1)}
    \cup {1073741823, 1073741824, 1073741825}

\* what the argument of -size says: its sign, its digit and its unit
ArgComparison(a) ==
    IF a[1] = "+" THEN "more" ELSE IF a[1] = "-" THEN "less" ELSE "exact"

ArgUnit(a) == IF a[Len(a)] \in {"b", "c", "k", "M", "G"} THEN a[Len(a)] ELSE "b"

ArgValue(a) == DigitVal(IF a[1] \in {"+", "-"} THEN a[2] ELSE a[1])

UnitBytes(u) ==
    CASE u = "c" -> 1
      [] u = "k" -> 1024
      [] u = "M" -> 1048576
      [] u = "G" -> 1073741824
      [] u = "b" -> 512

\* C15: a size predicate in 512-byte blocks with comparison exact and
\* value n holds of an entry iff ceil(byteSize / 512) = n, so for n = 1 of
\* every size in (0, 512] and not of 0 or 513; with any other unit exact
\* holds iff byteSize is value times the unit size, and more and less
\* compare byteSize strictly against value times the unit size
C15_SizeLaw ==
    (pc = "statBase" /\ Len(args) = 2 /\ args[1] = W_size) =>
        LET n == ArgValue(args[2])
            u == ArgUnit(args[2])
            cmp == ArgComparison(args[2])
        IN  /\ expr = SizeExpr(n, u, cmp)
            /\ \A bytes \in SizeSamples :
                  LET hit == evaluateExpression(expr, SizeCtx(bytes)) IN
                  IF u = "b"
                  THEN (cmp = "exact" =>
                            (hit <=> ((n - 1) * 512 < bytes /\ bytes <= n * 512)))
                  ELSE /\ cmp = "exact" => (hit <=> bytes = n * UnitBytes(u))
                       /\ cmp = "more" => (hit <=> bytes > n * UnitBytes(u))
                       /\ cmp = "less" => (hit <=> bytes < n * UnitBytes(u))
            /\ (u = "b" /\ cmp = "exact" /\ n = 1) =>
                  /\ \A bytes \in 1..512 : evaluateExpression(expr, SizeCtx(bytes))
                  /\ ~evaluateExpression(expr, SizeCtx(0))
                  /\ ~evaluateExpression(expr, SizeCtx(513))

\* -size 1 was parsed: one block, exact; it holds of 512 bytes and not of
\* 513
C15_Witness ==
    /\ pc = "statBase"
    /\ args = <<W_size, <<"1">>>>
    /\ expr = SizeExpr(1, "b", "exact")
    /\ evaluateExpression(expr, SizeCtx(512))
    /\ ~evaluateExpression(expr, SizeCtx(513))

\* the not nodes of an expression tree
RECURSIVE NotNodes(_)
NotNodes(e) ==
    CASE e.type = "not" -> 1 + NotNodes(e.expr)
      [] e.type \in {"and", "or"} -> NotNodes(e.left) + NotNodes(e.right)
      [] OTHER -> 0

IsMarker(w) == w \in {W_not, W_bang}

\* the negation markers of av that a name predicate follows, at any distance
MarkersBeforePredicate(av) ==
    Cardinality({i \in 1..Len(av) :
                    /\ IsMarker(av[i])
                    /\ \E j \in (i + 1)..Len(av) : av[j] = W_name})

\* C16: every negation marker is folded into the predicate token that
\* follows it, giving a not node around that predicate; only a marker that
\* no predicate token follows is dropped
C16_NegationFolded ==
    (pc = "statBase" /\ \A i \in 1..Len(args) : args[i] \in {W_not, W_bang, W_name, W_o, <<"a">>, <<"b">>}) =>
        NotNodes(expr) = MarkersBeforePredicate(args)

\* the position of the reported path f among the removals of the k-th
\* action, 0 when its removal has not completed
RemovalPosition(k, f) ==
    IF \E a \in 1..Len(RemovalsOf(k)) : RemovalsOf(k)[a] = f
    THEN CHOOSE a \in 1..Len(RemovalsOf(k)) : RemovalsOf(k)[a] = f
    ELSE 0

\* C17: the reported path of a match below a matched directory is strictly
\* longer than the directory's, for every search path and working
\* directory, and a -delete attempts the removal of the entry below before
\* the removal of the directory
C17_ChildBeforeParent ==
    \A i \in 1..Len(results) : \A j \in 1..Len(results) :
        IsProperAncestor(matched[i], matched[j]) =>
            /\ Len(results[j]) > Len(results[i])
            /\ \A k \in 1..Len(actions) :
                  (actions[k].type = "delete" /\ RemovalPosition(k, results[i]) > 0) =>
                      /\ RemovalPosition(k, results[j]) > 0
                      /\ RemovalPosition(k, results[j]) < RemovalPosition(k, results[i])

\* /rt/d/c.txt was removed and then the directory /rt/d, both with success
C17_Witness ==
    /\ pc = "done"
    /\ ret.site = "end"
    /\ basePath = P_rt
    /\ {P_d, P_c} \subseteq removed
    /\ \E a \in 1..Len(rmLog) : \E b \in 1..Len(rmLog) :
          /\ a < b
          /\ rmLog[a].ok /\ resolvePath(cwd, rmLog[a].file) = P_c
          /\ rmLog[b].ok /\ resolvePath(cwd, rmLog[b].file) = P_d

\* a removal has failed or a command has returned a non-zero exit code
SomethingFailed == FailedRemovals > 0 \/ execFails > 0

\* C18: once a removal has failed or a command has returned a non-zero exit
\* code the exit code is never reset to 0 by a later action, and an
\* invocation that passed parsing and found its search root returns 0 iff
\* every removal succeeded, every command returned 0 and no -exec was
\* requested without ctx.exec
C18_StickyExitCode ==
    /\ [](/\ (ActionPhase /\ SomethingFailed) => exitCode # 0
          /\ (ActionPhase /\ ~SomethingFailed) => exitCode = 0
          /\ (pc = "done" /\ ret.kind = "returned" /\ ret.site \in {"end", "noExec"}) =>
                (ret.exitCode = 0 <=>
                    (~SomethingFailed /\ ~(ExecRegistered /\ ~execAvail))))
    /\ [][(ActionPhase /\ exitCode # 0) => exitCode' # 0]_vars

\* a removal failed, a later command returned 0, and the invocation
\* returned a non-zero exit code
C18_Witness ==
    /\ pc = "done"
    /\ ret.site = "end"
    /\ FailedRemovals > 0
    /\ execFails = 0
    /\ Len(ExecOps) > 0
    /\ \E k \in 1..(Len(ops) - 1) : ops[k].kind = "rm" /\ ops[k + 1].kind = "exec"
    /\ ret.exitCode # 0

====
